---- MODULE Spec2Model ----
(***************************************************************************)
(* A model of the tree-index inserter (gpt_index/indices/tree/inserter.py),*)
(* the response builder (gpt_index/indices/response/builder.py) and the    *)
(* node filter of the query base class (gpt_index/indices/query/base.py).  *)
(*                                                                         *)
(* Texts are sequences of tokens (strings).  The LLM predictor is the      *)
(* deterministic echo mock of the interface section of the specification:  *)
(* its answer is a bracketed copy of what it was given, so two different   *)
(* call histories never give the same answer.  A predictor call may also   *)
(* raise.                                                                  *)
(***************************************************************************)
EXTENDS Integers, Sequences, FiniteSets, TLC

\* ------------------------------------------------------------------ bounds
\* nodes inserted into one index, over all insert calls
MaxNodes == 3
\* text chunks added to one ResponseBuilder
MaxTexts == 2
\* characters of a node text handed to the keyword filter
MaxTextLen == 3
\* failed insert calls after which the caller goes on inserting
MaxRecoveries == 0

\* ------------------------------------------------------------------ values
\* Python's None, and the marker of a predictor call that raises
None == <<"None">>
RAISE == <<"RAISE">>

\* source texts of the nodes a caller inserts
LeafTexts == {<<"c">>}
\* numbers of nodes handed to one insert call
BatchSizes == {1, 2}
\* fan-outs an inserter is constructed with (inserter.py:34 rejects < 2)
FanOuts == {2, 3}
\* leaves of the index the inserter is constructed over (0: an empty graph)
InitLeafCounts == {0, 3, 5}

VARIABLES
    num_children,   \* GPTIndexInserter.num_children
    index_graph,    \* GPTIndexInserter.index_graph: all_nodes, root_nodes,
                    \* node_id_to_child_indices
    node_text,      \* Node.text of every Node object created, by node id
    docstore,       \* GPTIndexInserter._docstore: the ids it holds
    leaf_text,      \* history: the source text each caller-made node had
    inserted,       \* history: number of nodes handed to insert so far
    failed_calls,   \* history: number of insert calls that raised
    last_insert     \* history: the outcome of the last insert call

treeVars == <<num_children, index_graph, node_text, docstore, leaf_text,
              inserted, failed_calls, last_insert>>

VARIABLES
    builder_texts,  \* ResponseBuilder._texts
    last_response   \* history: the last ResponseBuilder call and its outcome

builderVars == <<builder_texts, last_response>>

VARIABLES
    required_keywords,  \* BaseGPTIndexQuery._required_keywords
    exclude_keywords,   \* BaseGPTIndexQuery._exclude_keywords
    last_filter     \* history: the last _should_use_node call and its result

filterVars == <<required_keywords, exclude_keywords, last_filter>>

VARIABLES
    engine          \* a SubQuestionQueryEngine with its ResponseSynthesizer,
                    \* the query it is running and the tasks of that query

engineVars == <<engine>>

VARIABLES
    built           \* the last constructor call (GPTIndexInserter or a
                    \* Prompt), its arguments and whether it gave an object

builtVars == <<built>>

VARIABLES
    predictor,      \* LLMPredictor: total_tokens_used, last_token_usage
    call_stack,     \* the calls of methods wrapped by llm_token_counter
                    \* that have not ended, the innermost last
    last_call       \* history: the wrapped call that ended last, if none
                    \* was entered since

counterVars == <<predictor, call_stack, last_call>>

VARIABLES
    doc_hash,       \* the docstore's document hashes, by document id
    last_refresh    \* history: the last refresh_ref_docs call

refreshVars == <<doc_hash, last_refresh>>

VARIABLES
    batch           \* a batch_gather call: its chunks, its tasks, its output

batchVars == <<batch>>

VARIABLES
    handlers,       \* Dispatcher.handlers: the state of each BaseSpanHandler
    last_span,      \* history: the last span_enter or span_exit call made
                    \* on the handler
    exit_misused,   \* history: span_exit was called for an id not open
    span_run        \* the decorated calls in progress and what they sent

spanVars == <<handlers, last_span, exit_misused, span_run>>

VARIABLES
    query_env,      \* what a query object was built with: a query runner,
                    \* a docstore and what it holds
    last_query_node \* history: the last _query_node call

queryNodeVars == <<query_env, last_query_node>>

\* the objects outside the tree inserter, the response builder and the
\* keyword filter
otherVars ==
    <<engineVars, builtVars, counterVars, refreshVars, batchVars,
      spanVars, queryNodeVars>>

vars == <<treeVars, builderVars, filterVars, otherVars>>

\* what the actions of one object leave alone
exceptEngine ==
    <<treeVars, builderVars, filterVars, builtVars, counterVars, refreshVars,
      batchVars, spanVars, queryNodeVars>>
exceptBuilt ==
    <<treeVars, builderVars, filterVars, engineVars, counterVars,
      refreshVars, batchVars, spanVars, queryNodeVars>>
exceptCounter ==
    <<treeVars, builderVars, filterVars, engineVars, builtVars, refreshVars,
      batchVars, spanVars, queryNodeVars>>
exceptRefresh ==
    <<treeVars, builderVars, filterVars, engineVars, builtVars, counterVars,
      batchVars, spanVars, queryNodeVars>>
exceptBatch ==
    <<treeVars, builderVars, filterVars, engineVars, builtVars, counterVars,
      refreshVars, spanVars, queryNodeVars>>
exceptSpan ==
    <<treeVars, builderVars, filterVars, engineVars, builtVars, counterVars,
      refreshVars, batchVars, queryNodeVars>>
exceptQueryNode ==
    <<treeVars, builderVars, filterVars, engineVars, builtVars, counterVars,
      refreshVars, batchVars, spanVars>>

\* ------------------------------------------------------------ sequences
RECURSIVE SetToSortedSeq(_)
SetToSortedSeq(S) ==
    IF S = {} THEN <<>>
    ELSE LET m == CHOOSE x \in S : \A y \in S : x <= y
         IN <<m>> \o SetToSortedSeq(S \ {m})

RECURSIVE Flatten(_)
Flatten(ss) == IF ss = <<>> THEN <<>> ELSE Head(ss) \o Flatten(Tail(ss))

Range(s) == {s[i] : i \in 1..Len(s)}

\* Python list[i] for i >= -1 (a negative index counts from the end)
PyIndex(list, i) == IF i >= 0 THEN list[i + 1] ELSE list[Len(list) + i + 1]

\* ------------------------------------------------- LLM predictor (mock)
\* tokens an answer to the insert (selection) prompt is made of
NumberTokens == {"0", "1", "2", "3"}
SelectAnswers == {<<"x">>, <<"0">>, <<"1">>, <<"2">>, <<"3">>,
                  <<"x", "1", "2">>}

\* int() of a token matched by \d+
TokenValue(t) ==
    CASE t = "0" -> 0 [] t = "1" -> 1 [] t = "2" -> 2 [] t = "3" -> 3

\* the echo mock's answer to the summary prompt over context ctx
Summary(ctx) == <<"[">> \o ctx \o <<"]">>

\* what one predict call with the summary prompt can do: answer or raise
SummaryResponses(ctx) == {Summary(ctx), RAISE}

\* what one predict call with the insert prompt can do
SelectResponses == SelectAnswers \cup {RAISE}

\* utils.extract_numbers_given_response: re.findall(r"\d+", response)[:1],
\* None when there is none
IsNumberToken(t) == t \in NumberTokens
extract_numbers_given_response(response) ==
    LET numbers == SelectSeq(response, IsNumberToken)
    IN IF Len(numbers) = 0 THEN None ELSE SubSeq(numbers, 1, 1)

\* ------------------------------------------------------------ IndexGraph
\* Node ids are 1, 2, ... in order of creation; NoParent stands for a
\* parent_node of None and NoIndex for a new_index of None.
NoParent == 0
NoIndex == -1

EmptyGraph == [all_nodes |-> <<>>, root_nodes |-> {},
               node_id_to_child_indices |-> <<>>]

\* IndexGraph.size: len(all_nodes); all_nodes maps index i (from 0) to the
\* node id at position i + 1
Size(g) == Len(g.all_nodes)
Indices(g) == 0 .. (Size(g) - 1)
NodeAt(g, i) == g.all_nodes[i + 1]

\* IndexGraph.get_index(node)
get_index(g, id) == CHOOSE i \in Indices(g) : NodeAt(g, i) = id

\* IndexGraph.get_children_indices(node): no entry means no children
get_children_indices(g, id) ==
    IF id \in DOMAIN g.node_id_to_child_indices
    THEN g.node_id_to_child_indices[id] ELSE {}

\* IndexGraph.get_children(parent_node): the indices of the children
get_children(g, parent) ==
    IF parent = NoParent THEN g.root_nodes ELSE get_children_indices(g, parent)

\* all_nodes[index] = id
SetAllNodes(g, index, id) ==
    IF index < Size(g)
    THEN [g EXCEPT !.all_nodes[index + 1] = id]
    ELSE [g EXCEPT !.all_nodes = Append(g.all_nodes, id)]

SetChildIndices(g, id, S) ==
    [g EXCEPT !.node_id_to_child_indices =
                  (id :> S) @@ g.node_id_to_child_indices]

\* IndexGraph.insert(node, children_nodes=...): register the node at index
\* size with the given children
graph_insert(g, id, children_ids) ==
    SetChildIndices(SetAllNodes(g, Size(g), id), id,
                    {get_index(g, c) : c \in children_ids})

\* IndexGraph.insert_under_parent(node, parent_node, new_index)
insert_under_parent(g, id, parent, new_index) ==
    LET index == IF new_index = NoIndex \/ new_index = 0
                 THEN Size(g) ELSE new_index
        g1 == IF parent = NoParent
              THEN [g EXCEPT !.root_nodes = @ \cup {index}]
              ELSE SetChildIndices(g, parent,
                       get_children_indices(g, parent) \cup {index})
    IN SetAllNodes(g1, index, id)

\* utils.get_sorted_node_list: the nodes of a dict index -> node, by index;
\* here the sorted indices
get_sorted_node_list(S) == SetToSortedSeq(S)

\* --------------------------------------------------------- DocumentStore
\* DocumentStore.get_node_dict(ids) can be answered: every id is held
\* (get_document raises ValueError for an id it does not hold)
CanGetNodeDict(st, indexSet) ==
    \A i \in indexSet : NodeAt(st.g, i) \in st.docs

\* DocumentStore.add_documents(nodes)
add_documents(docs, ids) == docs \cup ids

\* ----------------------------------------------------------- PromptHelper
\* PromptHelper.get_text_from_nodes: the texts of the nodes, in order
get_text_from_nodes(st, list) ==
    Flatten([k \in 1..Len(list) |-> st.text[NodeAt(st.g, list[k])]])

\* ------------------------------------------------------ GPTIndexInserter
\* The state an insert call works on: g the IndexGraph, text the Node
\* texts, docs the DocumentStore, status "ok" or the exception raised.
\* History kept for the properties: log, the predictor calls made so far in
\* this call (kind of call, node being inserted, parent the call is made
\* at, number n of children listed, answer); placed, the (node, parent)
\* pairs of inserter.py:55; pre, the graph and texts at the moment of the
\* predictor call that raised; splits, one entry per consolidation that ran
\* to its end.
Logged(st, kind, node, parent, n, resp) ==
    [st EXCEPT !.log = Append(@, [kind |-> kind, node |-> node,
                                  parent |-> parent, n |-> n, resp |-> resp])]

\* a predictor call raises: nothing is caught, the call stack unwinds
RaiseLLMError(st, kind, node, parent, n) ==
    [Logged(st, kind, node, parent, n, RAISE) EXCEPT
        !.status = "LLMError", !.pre = [g |-> st.g, text |-> st.text]]

\* DocumentStore.get_node_dict raises for an id the store does not hold
RaiseValueError(st) == [st EXCEPT !.status = "ValueError"]

\* Node(text=...): a new Node object; its id is the next one
NewNodeId(st) == Len(st.text) + 1
CreateNode(st, text) == [st EXCEPT !.text = Append(@, text)]

\* inserter.py:58: the parent is over the limit
OverLimitLax(st, parent, nc) ==
    Cardinality(get_children(st.g, parent)) > nc + 1
OverLimit(st, parent, nc) == Cardinality(get_children(st.g, parent)) > nc

\* inserter.py:68-69: the two halves of the sorted child list
Half1RoundedUp(list) == SubSeq(list, 1, (Len(list) + 1) \div 2)
Half1(list) == SubSeq(list, 1, Len(list) \div 2)
Half2(list) == SubSeq(list, (Len(list) \div 2) + 1, Len(list))

\* inserter.py:77-80 and 88-91: a summary node over a half is created and
\* registered in the graph with the half as its children
RegisterSummaryNode(st, summary, half) ==
    LET id == NewNodeId(st)
        st1 == CreateNode(st, summary)
    IN [st1 EXCEPT !.g = graph_insert(st.g, id,
                             {NodeAt(st.g, half[k]) : k \in 1..Len(half)})]

\* inserter.py:95-98: the parent's child set is emptied
ClearChildrenForgotten(g, parent) == g
ClearChildren(g, parent) ==
    IF parent = NoParent
    THEN [g EXCEPT !.root_nodes = {}]
    ELSE SetChildIndices(g, parent, {})

\* inserter.py:93-102: the two summary nodes become the parent's children;
\* the node added to the docstore is text_node, both times
ReplaceChildren(st, text_node, parent, node1, node2) ==
    LET g0 == ClearChildren(st.g, parent)
        g1 == insert_under_parent(g0, node1, parent, get_index(g0, node1))
        d1 == add_documents(st.docs, {text_node})
        g2 == insert_under_parent(g1, node2, parent, get_index(g1, node2))
        d2 == add_documents(d1, {text_node})
    IN [st EXCEPT !.g = g2, !.docs = d2]

\* the children of the parent of node id (the root set for a root); id is
\* a registered node
SiblingIndices(g, id) ==
    LET i == get_index(g, id)
    IN IF i \in g.root_nodes THEN g.root_nodes
       ELSE LET p == CHOOSE q \in Range(g.all_nodes) :
                         i \in get_children_indices(g, q)
            IN get_children_indices(g, p)

\* history: a consolidation of parent ran from state before to state after
\* and created node1 and node2; list is the sorted child list it split
Split(before, after, parent, node1, node2) ==
    [parent |-> parent,
     list |-> get_sorted_node_list(get_children(before.g, parent)),
     node1 |-> node1, node2 |-> node2,
     kids1 |-> get_children_indices(after.g, node1),
     kids2 |-> get_children_indices(after.g, node2),
     children_after |-> get_children(after.g, parent),
     above_before |-> IF parent = NoParent THEN {}
                      ELSE SiblingIndices(before.g, parent),
     above_after |-> IF parent = NoParent THEN {}
                     ELSE SiblingIndices(after.g, parent),
     roots_after |-> after.g.root_nodes,
     widest_after |->
         LET counts == {Cardinality(get_children(after.g, p))
                        : p \in {NoParent} \cup Range(after.g.all_nodes)}
         IN CHOOSE c \in counts : \A d \in counts : d <= c]
RecordSplit(before, after, parent, node1, node2) ==
    [after EXCEPT !.splits =
                      Append(@, Split(before, after, parent, node1, node2))]

\* inserter.py:82-102: the second half is summarized and the parent rewired
ConsolidateSecond(st, text_node, parent, node1, half2) ==
    LET ctx == get_text_from_nodes(st, half2)
        n == Len(half2)
    IN { IF r = RAISE
         THEN RaiseLLMError(st, "summary2", text_node, parent, n)
         ELSE RecordSplit(
                  st,
                  ReplaceChildren(
                      RegisterSummaryNode(
                          Logged(st, "summary2", text_node, parent, n, r),
                          r, half2),
                      text_node, parent, node1, NewNodeId(st)),
                  parent, node1, NewNodeId(st))
         : r \in SummaryResponses(ctx) }

\* inserter.py:61-102: the consolidation of a parent over the limit
Consolidate(st, text_node, parent) ==
    IF ~CanGetNodeDict(st, get_children(st.g, parent))
    THEN {RaiseValueError(st)}
    ELSE LET list == get_sorted_node_list(get_children(st.g, parent))
             half1 == Half1(list)
             half2 == Half2(list)
             ctx == get_text_from_nodes(st, half1)
             n == Len(half1)
         IN UNION { IF r = RAISE
                    THEN {RaiseLLMError(st, "summary1", text_node, parent, n)}
                    ELSE ConsolidateSecond(
                             RegisterSummaryNode(
                                 Logged(st, "summary1", text_node, parent,
                                        n, r),
                                 r, half1),
                             text_node, parent, NewNodeId(st), half2)
                    : r \in SummaryResponses(ctx) }

\* inserter.py:45-102: GPTIndexInserter._insert_under_parent_and_consolidate
insert_under_parent_and_consolidate_split_first(st, text_node, parent, nc) ==
    LET put(s) == [s EXCEPT
                     !.g = insert_under_parent(s.g, text_node, parent, NoIndex),
                     !.placed = Append(@, [node |-> text_node,
                                           parent |-> parent])]
    IN IF Cardinality(get_children(st.g, parent)) < nc THEN {put(st)}
       ELSE { IF s.status = "ok" THEN put(s) ELSE s
              : s \in Consolidate(st, text_node, parent) }
insert_under_parent_and_consolidate(st, text_node, parent, nc) ==
    LET st1 == [st EXCEPT
                  !.g = insert_under_parent(st.g, text_node, parent, NoIndex),
                  !.placed = Append(@, [node |-> text_node,
                                        parent |-> parent])]
    IN IF ~OverLimit(st1, parent, nc) THEN {st1}
       ELSE Consolidate(st1, text_node, parent)

\* inserter.py:129-138: what the answer to the insert prompt selects:
\* NoIndex for "insert under the current parent", else the index (in the
\* graph) of the child to descend into
SelectedChild(list, response) ==
    LET numbers == extract_numbers_given_response(response)
    IN IF numbers = None \/ Len(numbers) = 0 THEN NoIndex
       ELSE IF TokenValue(numbers[1]) > Len(list) THEN NoIndex
       ELSE PyIndex(list, TokenValue(numbers[1]) - 1)

\* inserter.py:150-154: the predictor's answer becomes the parent's text
ApplyNewSummaryEarly(st, node, parent, n, r) ==
    IF r = RAISE
    THEN [RaiseLLMError(st, "update", node, parent, n) EXCEPT
             !.text[parent] = <<>>]
    ELSE [Logged(st, "update", node, parent, n, r) EXCEPT !.text[parent] = r]
ApplyNewSummary(st, node, parent, n, r) ==
    IF r = RAISE THEN RaiseLLMError(st, "update", node, parent, n)
    ELSE [Logged(st, "update", node, parent, n, r) EXCEPT !.text[parent] = r]

\* inserter.py:140-154: the parent's summary is recomputed from its children
UpdateParentSummarySkipped(st, node, parent) == {st}
UpdateParentSummary(st, node, parent) ==
    IF st.status # "ok" \/ parent = NoParent THEN {st}
    ELSE IF ~CanGetNodeDict(st, get_children(st.g, parent))
    THEN {RaiseValueError(st)}
    ELSE LET list == get_sorted_node_list(get_children(st.g, parent))
         IN { ApplyNewSummary(st, node, parent, Len(list), r)
              : r \in SummaryResponses(get_text_from_nodes(st, list)) }

\* inserter.py:104-154: GPTIndexInserter._insert_node; the set of states the
\* call can end in, over what the predictor calls it makes can do
RECURSIVE insert_node(_, _, _, _)
insert_node(st, node, parent, nc) ==
    IF ~CanGetNodeDict(st, get_children(st.g, parent))
    THEN {RaiseValueError(st)}
    ELSE
    LET list == get_sorted_node_list(get_children(st.g, parent))
        n == Len(list)
        done ==
            IF n = 0
            THEN insert_under_parent_and_consolidate(st, node, parent, nc)
            ELSE IF get_children_indices(st.g, NodeAt(st.g, list[1])) = {}
            THEN insert_under_parent_and_consolidate(st, node, parent, nc)
            ELSE UNION {
                IF r = RAISE
                THEN {RaiseLLMError(st, "select", node, parent, n)}
                ELSE LET sel == SelectedChild(list, r)
                         st1 == Logged(st, "select", node, parent, n, r)
                     IN IF sel = NoIndex
                        THEN insert_under_parent_and_consolidate(
                                 st1, node, parent, nc)
                        ELSE insert_node(st1, node, NodeAt(st.g, sel), nc)
                : r \in SelectResponses }
    IN UNION { UpdateParentSummary(s, node, parent) : s \in done }

\* inserter.py:156-159: GPTIndexInserter.insert: the nodes one after the
\* other; an exception ends the loop
RECURSIVE insert(_, _, _)
insert(st, nodes, nc) ==
    IF nodes = <<>> \/ st.status # "ok" THEN {st}
    ELSE UNION { insert(s, Tail(nodes), nc)
                 : s \in insert_node(st, Head(nodes), NoParent, nc) }

\* ------------------------------------------------- the index at the start
\* The tree the index builder leaves behind: the leaves registered in order,
\* then, while a level has more than num_children nodes, one summary node
\* per group of num_children consecutive nodes; the last level is the root
\* set.  Every node of it is in the docstore.
SourceText(i) == IF i % 2 = 1 THEN <<"a">> ELSE <<"b">>

RECURSIVE AddLeaves(_, _)
AddLeaves(st, k) ==
    IF k = 0 THEN st
    ELSE LET s0 == AddLeaves(st, k - 1)
             id == NewNodeId(s0)
             s1 == CreateNode(s0, SourceText(k))
         IN [s1 EXCEPT !.g = graph_insert(s0.g, id, {}),
                       !.docs = add_documents(s0.docs, {id})]

RECURSIVE BuildGroups(_, _, _)
BuildGroups(st, level, nc) ==
    IF level = <<>> THEN st
    ELSE LET n == IF Len(level) < nc THEN Len(level) ELSE nc
             group == SubSeq(level, 1, n)
             id == NewNodeId(st)
             s1 == RegisterSummaryNode(
                       st, Summary(get_text_from_nodes(st, group)), group)
             s2 == [s1 EXCEPT !.docs = add_documents(s1.docs, {id})]
         IN BuildGroups(s2, SubSeq(level, n + 1, Len(level)), nc)

RECURSIVE BuildLevels(_, _, _)
BuildLevels(st, level, nc) ==
    IF Len(level) <= nc
    THEN [st EXCEPT !.g.root_nodes = Range(level)]
    ELSE LET s1 == BuildGroups(st, level, nc)
         IN BuildLevels(s1, [k \in 1..(Size(s1.g) - Size(st.g))
                                 |-> Size(st.g) + k - 1], nc)

NoFailure == [g |-> EmptyGraph, text |-> <<>>]

BlankState == [g |-> EmptyGraph, text |-> <<>>, docs |-> {},
               status |-> "ok", log |-> <<>>, placed |-> <<>>,
               pre |-> NoFailure, splits |-> <<>>]

BuildIndex(k, nc) ==
    LET s0 == AddLeaves(BlankState, k)
    IN BuildLevels(s0, [i \in 1..k |-> i - 1], nc)

\* ======================================================= ResponseBuilder
\* text chunks handed to the builder, query strings and previous responses
Chunks == {<<>>, <<"p">>, <<"p", "q">>, <<"q", "p", "q">>}
Queries == {<<"who">>}
PrevResponses == {None, <<"old">>}
ResponseModes == {"default", "compact", "tree_summarize", "other"}

\* tokens per chunk the splitter sized for the QA prompt and the one sized
\* for the refine prompt (which also holds the existing answer) allow
QAChunkSize == 2
RefineChunkSize == 1

\* PromptHelper: the tokens of the refine template with every variable
\* left empty, and the tokens reserved for the output
RefineTemplateTokens == 2
NumOutput == 1
\* the context window for which the splitter made from the refine template
\* alone (builder.py:61-63) allows RefineChunkSize tokens per sub-chunk
ContextWindow == RefineTemplateTokens + NumOutput + RefineChunkSize

\* TokenTextSplitter.split_text: consecutive pieces of at most size tokens;
\* no piece for an empty text
RECURSIVE split_text(_, _)
split_text(text, size) ==
    IF Len(text) = 0 THEN <<>>
    ELSE IF Len(text) <= size THEN <<text>>
    ELSE <<SubSeq(text, 1, size)>>
         \o split_text(SubSeq(text, size + 1, Len(text)), size)

\* PromptHelper.compact_text_chunks: the chunks joined by a separator and
\* split again to the size the QA prompt allows
RECURSIVE JoinChunks(_)
JoinChunks(chunks) ==
    IF chunks = <<>> THEN <<>>
    ELSE IF Len(chunks) = 1 THEN chunks[1]
    ELSE chunks[1] \o <<"\n\n">> \o JoinChunks(Tail(chunks))
compact_text_chunks(chunks) == split_text(JoinChunks(chunks), QAChunkSize)

\* the echo mock's answers to the QA prompt and to the refine prompt
AnswerQA(context_str) == <<"A(">> \o context_str \o <<")">>
AnswerRefine(existing_answer, context_msg) ==
    <<"R(">> \o existing_answer \o <<"|">> \o context_msg \o <<")">>

PredictQA(query_str, context_str) ==
    [template |-> "text_qa", query_str |-> query_str,
     existing_answer |-> None, context |-> context_str]
PredictRefine(query_str, existing_answer, context_msg) ==
    [template |-> "refine", query_str |-> query_str,
     existing_answer |-> existing_answer, context |-> context_msg]

\* builder.py:65-71: one predictor call per piece, the answer carried on
RECURSIVE RefineOverPieces(_, _, _)
RefineOverPieces(response, query_str, pieces) ==
    IF pieces = <<>> THEN [response |-> response, calls |-> <<>>]
    ELSE LET r == AnswerRefine(response, Head(pieces))
             rest == RefineOverPieces(r, query_str, Tail(pieces))
         IN [response |-> rest.response,
             calls |-> <<PredictRefine(query_str, response, Head(pieces))>>
                       \o rest.calls]

\* builder.py:50-74: ResponseBuilder.refine_response_single
refine_response_single(response, query_str, text_chunk) ==
    RefineOverPieces(response, query_str,
                     split_text(text_chunk, RefineChunkSize))

\* builder.py:88-101: the first piece is answered, the later ones refine
RECURSIVE GiveOverPieces(_, _, _)
GiveOverPieces(response, query_str, pieces) ==
    IF pieces = <<>> THEN [response |-> response, calls |-> <<>>]
    ELSE LET step ==
                 IF response = None
                 THEN [response |-> AnswerQA(Head(pieces)),
                       calls |-> <<PredictQA(query_str, Head(pieces))>>]
                 ELSE refine_response_single(response, query_str,
                                             Head(pieces))
             rest == GiveOverPieces(step.response, query_str, Tail(pieces))
         IN [response |-> rest.response, calls |-> step.calls \o rest.calls]

\* builder.py:77-102: ResponseBuilder.give_response_single (response or "")
give_response_single(query_str, text_chunk) ==
    LET r == GiveOverPieces(None, query_str,
                            split_text(text_chunk, QAChunkSize))
    IN [response |-> IF r.response = None THEN <<>> ELSE r.response,
        calls |-> r.calls]

\* builder.py:110-123: the loop over the chunks; response is bound by the
\* body, prev_response is the argument in every pass
RECURSIVE OverChunks(_, _, _, _)
OverChunks(bound, query_str, text_chunks, prev_response) ==
    IF text_chunks = <<>> THEN bound
    ELSE LET step ==
                 IF prev_response = None
                 THEN give_response_single(query_str, Head(text_chunks))
                 ELSE refine_response_single(prev_response, query_str,
                                             Head(text_chunks))
         IN OverChunks([status |-> "ok", response |-> step.response,
                        calls |-> bound.calls \o step.calls],
                       query_str, Tail(text_chunks), prev_response)

\* builder.py:105-124: ResponseBuilder.get_response_over_chunks; with no
\* chunk, "return response" reads a name that was never bound
get_response_over_chunks_defaulting(query_str, text_chunks, prev_response) ==
    OverChunks([status |-> "ok", response |-> prev_response, calls |-> <<>>],
               query_str, text_chunks, prev_response)
get_response_over_chunks_refining(query_str, text_chunks, prev_response) ==
    OverChunks([status |-> "UnboundLocalError", response |-> None,
                calls |-> <<>>],
               query_str, text_chunks,
               IF prev_response = None THEN <<>> ELSE prev_response)
get_response_over_chunks(query_str, text_chunks, prev_response) ==
    OverChunks([status |-> "UnboundLocalError", response |-> None,
                calls |-> <<>>],
               query_str, text_chunks, prev_response)

\* the outcome of a get_response call, with _texts as the call leaves it
WithTexts(r, txts) ==
    [status |-> r.status, response |-> r.response, calls |-> r.calls,
     texts |-> txts]

\* builder.py:126-129: ResponseBuilder._get_response_default
get_response_default(txts, query_str, prev_response) ==
    WithTexts(get_response_over_chunks(query_str, txts, prev_response), txts)

\* builder.py:131-135: ResponseBuilder._get_response_compact
get_response_compact(txts, query_str, prev_response) ==
    WithTexts(get_response_over_chunks(query_str, compact_text_chunks(txts),
                                       prev_response),
              txts)

\* builder.py:137-139: ResponseBuilder._get_response_tree_summarize
get_response_tree_summarize_partial(txts, query_str, prev_response) ==
    [status |-> "NotImplementedError", response |-> None,
     calls |-> get_response_over_chunks(query_str, compact_text_chunks(txts),
                                        prev_response).calls,
     texts |-> compact_text_chunks(txts)]
get_response_tree_summarize(txts, query_str, prev_response) ==
    [status |-> "NotImplementedError", response |-> None, calls |-> <<>>,
     texts |-> txts]

\* builder.py:141-156: ResponseBuilder.get_response
get_response(txts, query_str, prev_response, mode) ==
    IF mode = "default"
    THEN get_response_default(txts, query_str, prev_response)
    ELSE IF mode = "compact"
    THEN get_response_compact(txts, query_str, prev_response)
    ELSE IF mode = "tree_summarize"
    THEN get_response_tree_summarize(txts, query_str, prev_response)
    ELSE [status |-> "ValueError", response |-> None, calls |-> <<>>,
          texts |-> txts]

InitBuilder ==
    /\ builder_texts = <<>>
    /\ last_response = [op |-> "none", query_str |-> None, chunks |-> <<>>,
                        prev_response |-> None, mode |-> "none",
                        texts_before |-> <<>>, texts_after |-> <<>>,
                        status |-> "none",
                        response |-> None, calls |-> <<>>]

\* builder.py:46-48: ResponseBuilder.add_text_chunks
AddTextChunks ==
    /\ \E c \in Chunks :
          /\ Len(builder_texts) + 1 <= MaxTexts
          /\ builder_texts' = builder_texts \o <<c>>
    /\ UNCHANGED <<last_response, treeVars, filterVars, otherVars>>

\* builder.py:141-156: a get_response call
GetResponse ==
    /\ \E q \in Queries, prev \in PrevResponses, mode \in ResponseModes :
          LET r == get_response(builder_texts, q, prev, mode)
          IN /\ last_response' =
                [op |-> "get_response", query_str |-> q, chunks |-> builder_texts,
                 prev_response |-> prev, mode |-> mode,
                 texts_before |-> builder_texts, texts_after |-> r.texts,
                 status |-> r.status,
                 response |-> r.response, calls |-> r.calls]
             /\ builder_texts' = r.texts
    /\ UNCHANGED <<treeVars, filterVars, otherVars>>

\* query/base.py:141-146: _query_node hands the node's text, as the only
\* chunk, to get_response_over_chunks of a fresh builder
QueryNodeText ==
    /\ \E q \in Queries, prev \in PrevResponses, c \in Chunks :
          LET r == get_response_over_chunks(q, <<c>>, prev)
          IN last_response' =
                [op |-> "get_response_over_chunks", query_str |-> q,
                 chunks |-> <<c>>, prev_response |-> prev, mode |-> "none",
                 texts_before |-> builder_texts,
                 texts_after |-> builder_texts, status |-> r.status,
                 response |-> r.response, calls |-> r.calls]
    /\ UNCHANGED <<builder_texts, treeVars, filterVars, otherVars>>

\* node texts a retrieval hands to _give_response_for_nodes: none, one, ...
RECURSIVE ChunkListsUpTo(_)
ChunkListsUpTo(n) ==
    IF n = 0 THEN {<<>>}
    ELSE ChunkListsUpTo(n - 1)
         \cup {Append(l, c) : l \in {u \in ChunkListsUpTo(n - 1) : Len(u) = n - 1},
                              c \in Chunks}

\* query/vector_store/simple.py:66-81: _give_response_for_nodes: a fresh
\* builder, one add_text_chunks per node, get_response in the default
\* mode with no previous response, then "response or ''"
give_response_for_nodes(query_str, node_texts) ==
    LET r == get_response(node_texts, query_str, None, "default")
    IN [status |-> r.status,
        response |-> IF r.status = "ok" /\ r.response = None
                     THEN <<>> ELSE r.response,
        calls |-> r.calls, texts |-> r.texts]

GiveResponseForNodes ==
    /\ \E q \in Queries, node_texts \in ChunkListsUpTo(MaxTexts) :
          LET r == give_response_for_nodes(q, node_texts)
          IN last_response' =
                [op |-> "give_response_for_nodes", query_str |-> q,
                 chunks |-> node_texts, prev_response |-> None,
                 mode |-> "default", texts_before |-> node_texts,
                 texts_after |-> r.texts, status |-> r.status,
                 response |-> r.response, calls |-> r.calls]
    /\ UNCHANGED <<builder_texts, treeVars, filterVars, otherVars>>

NextBuilder ==
    AddTextChunks \/ GetResponse \/ QueryNodeText \/ GiveResponseForNodes

\* ================================================== BaseGPTIndexQuery
\* Node texts and keywords are sequences of characters.
Alphabet == {"a", "A", "b", " ", ","}
WordChars == {"a", "A", "b"}
Keywords == {<<"a">>, <<"A">>, <<"b">>, <<"a", "b">>}
\* a keyword list of None (no filter), told apart from every list of keywords
NoKeywords == <<None>>
KeywordLists ==
    {NoKeywords, <<>>} \cup {<<k>> : k \in Keywords}
        \cup {<<<<"a">>, <<"b">>>>, <<<<"A">>, <<"a", "b">>>>}

RECURSIVE TextsUpTo(_)
TextsUpTo(n) ==
    IF n = 0 THEN {<<>>}
    ELSE TextsUpTo(n - 1)
         \cup {Append(t, c) : t \in {u \in TextsUpTo(n - 1) : Len(u) = n - 1},
                              c \in Alphabet}

\* re.findall(r"\w+", text): the maximal runs of word characters, in order
RECURSIVE FindWords(_, _)
FindWords(text, run) ==
    IF text = <<>> THEN (IF run = <<>> THEN <<>> ELSE <<run>>)
    ELSE IF Head(text) \in WordChars
    THEN FindWords(Tail(text), Append(run, Head(text)))
    ELSE (IF run = <<>> THEN <<>> ELSE <<run>>) \o FindWords(Tail(text), <<>>)

\* query/base.py:71-84: BaseGPTIndexQuery._should_use_node
should_use_node(text, required, exclude) ==
    LET words == Range(FindWords(text, <<>>))
    IN /\ required # NoKeywords =>
              \A k \in 1..Len(required) : required[k] \in words
       /\ exclude # NoKeywords =>
              \A k \in 1..Len(exclude) : exclude[k] \notin words

\* query/base.py:68-69: the keyword lists the query object is built with
InitFilter ==
    /\ required_keywords \in KeywordLists
    /\ exclude_keywords \in KeywordLists
    /\ last_filter = [called |-> FALSE, text |-> <<>>, result |-> TRUE]

\* a query object built without keyword lists that is left alone
FilterAtRest ==
    /\ InitFilter
    /\ required_keywords = NoKeywords
    /\ exclude_keywords = NoKeywords

\* query/base.py:71-84: a _should_use_node call
ShouldUseNode ==
    /\ \E text \in TextsUpTo(MaxTextLen) :
          last_filter' = [called |-> TRUE, text |-> text,
                          result |-> should_use_node(text, required_keywords,
                                                     exclude_keywords)]
    /\ UNCHANGED <<required_keywords, exclude_keywords, treeVars,
                   builderVars, otherVars>>

NextFilter == ShouldUseNode

\* ================== SubQuestionQueryEngine and its ResponseSynthesizer
\* sub-questions one query is decomposed into
MaxSubQuestions == 2

\* the sub-questions the question generator can produce
SubQuestionTexts == {"q1", "q2"}
ResponseSynthModes == {"default", "no_text"}

RECURSIVE SubQuestionListsUpTo(_)
SubQuestionListsUpTo(n) ==
    IF n = 0 THEN {<<>>}
    ELSE SubQuestionListsUpTo(n - 1)
         \cup {Append(l, q) :
                 l \in {u \in SubQuestionListsUpTo(n - 1) : Len(u) = n - 1},
                 q \in SubQuestionTexts}

\* a NodeWithScore, and the None that stands in for one
NodeWithScore(text) == [is_none |-> FALSE, text |-> text]
NoneNode == [is_none |-> TRUE, text |-> <<>>]

\* sub_question_query_engine.py:99-106: the node built from the answer of
\* the sub-question's query engine (the echo mock answers "A(question)")
SubQuestionNode(question) ==
    NodeWithScore(<<"Sub question:", question, "Response:", "A(", question,
                    ")">>)

\* sub_question_query_engine.py:89-109: what aquery_subq ends with: it
\* returns the node, returns None when the query engine raised ValueError
\* (line 107), and lets any other exception of the query engine out (node
\* is then the slot nothing was returned into)
SubQuestionOutcomes == {"answer", "ValueError", "RuntimeError"}
aquery_subq(question, outcome) ==
    IF outcome = "answer"
    THEN [status |-> "ok", node |-> SubQuestionNode(question)]
    ELSE IF outcome = "ValueError"
    THEN [status |-> "ok", node |-> NoneNode]
    ELSE [status |-> outcome, node |-> NoneNode]

\* BaseTokenUsageOptimizer.optimize(query_bundle, text): the shortened text
optimize(query_str, text) == <<"opt(">> \o text \o <<")">>

\* BaseResponseBuilder.get_response / aget_response(query_str, text_chunks):
\* the answer of the echo mock, which shows the chunks and their order
builder_get_response(query_str, text_chunks) ==
    <<"resp(", query_str>> \o Flatten([k \in 1..Len(text_chunks) |->
                                         <<"|">> \o text_chunks[k]])
                           \o <<")">>

SynthRaised(error) ==
    [status |-> error, text_chunks |-> <<>>, response |-> None,
     source_nodes |-> <<>>]

\* response_synthesis.py:140-152 and 167-179: the chunks go to the response
\* builder unless the mode is NO_TEXT; the nodes are the source nodes
SynthesizeChunks(query_str, nodes, text_chunks, mode) ==
    [status |-> "ok",
     text_chunks |-> IF mode = "no_text" THEN <<>> ELSE text_chunks,
     response |-> IF mode = "no_text" THEN None
                  ELSE builder_get_response(query_str, text_chunks),
     source_nodes |-> nodes]

\* response_synthesis.py:133-138: the loop of synthesize over the nodes;
\* with an optimizer, line 137 reads text.text of the str that
\* _get_text_from_node returned
RECURSIVE SyncChunks(_, _, _, _)
SyncChunks(query_str, nodes, has_optimizer, text_chunks) ==
    IF nodes = <<>> THEN [status |-> "ok", text_chunks |-> text_chunks]
    ELSE IF Head(nodes).is_none \/ has_optimizer
    THEN [status |-> "AttributeError", text_chunks |-> text_chunks]
    ELSE SyncChunks(query_str, Tail(nodes), has_optimizer,
                    Append(text_chunks, Head(nodes).text))

\* response_synthesis.py:160-165: the loop of asynthesize over the nodes
RECURSIVE AsyncChunks(_, _, _, _)
AsyncChunks(query_str, nodes, has_optimizer, text_chunks) ==
    IF nodes = <<>> THEN [status |-> "ok", text_chunks |-> text_chunks]
    ELSE IF Head(nodes).is_none
    THEN [status |-> "AttributeError", text_chunks |-> text_chunks]
    ELSE AsyncChunks(query_str, Tail(nodes), has_optimizer,
                     Append(text_chunks,
                            IF has_optimizer
                            THEN optimize(query_str, Head(nodes).text)
                            ELSE Head(nodes).text))

\* response_synthesis.py:127-152: ResponseSynthesizer.synthesize
synthesize(query_str, nodes, has_optimizer, mode) ==
    LET c == SyncChunks(query_str, nodes, has_optimizer, <<>>)
    IN IF c.status # "ok" THEN SynthRaised(c.status)
       ELSE SynthesizeChunks(query_str, nodes, c.text_chunks, mode)

\* response_synthesis.py:154-179: ResponseSynthesizer.asynthesize
asynthesize(query_str, nodes, has_optimizer, mode) ==
    LET c == AsyncChunks(query_str, nodes, has_optimizer, <<>>)
    IN IF c.status # "ok" THEN SynthRaised(c.status)
       ELSE SynthesizeChunks(query_str, nodes, c.text_chunks, mode)

\* async_utils.py:38-41 and sub_question_query_engine.py:82:
\* asyncio.gather(*tasks): the results in the order of the tasks, whatever
\* the order they finished in
gather_in_completion_order(results, finished) ==
    [k \in 1..Len(finished) |-> results[finished[k]]]
gather(results, finished) == results

NoSynthCall ==
    [called |-> FALSE, nodes |-> <<>>, pending |-> {},
     outcome |-> SynthRaised("none")]

\* the engine between two queries
EngineIdle(has_optimizer, mode) ==
    [pc |-> "idle", has_optimizer |-> has_optimizer, response_mode |-> mode,
     use_async |-> FALSE, sub_questions |-> <<>>, task |-> <<>>,
     results |-> <<>>, finished |-> <<>>, synth |-> NoSynthCall]

\* sub_question_query_engine.py:21-36 and response_synthesis.py:39-51
InitEngine ==
    \E has_optimizer \in BOOLEAN, mode \in ResponseSynthModes :
        engine = EngineIdle(has_optimizer, mode)

\* an engine built without optimizer that is left alone
EngineAtRest == engine = EngineIdle(FALSE, "default")

QueryStr == <<"who">>
Tasks == 1..Len(engine.sub_questions)

\* sub_question_query_engine.py:51-62 and 69-82: _query or _aquery generates
\* the sub-questions and makes one aquery_subq coroutine for each
StartQuery ==
    /\ engine.pc = "idle"
    /\ \E use_async \in BOOLEAN,
          sub_questions \in SubQuestionListsUpTo(MaxSubQuestions) :
          engine' = [engine EXCEPT
                        !.pc = "gathering",
                        !.use_async = use_async,
                        !.sub_questions = sub_questions,
                        !.task = [k \in 1..Len(sub_questions) |-> "created"],
                        !.results = [k \in 1..Len(sub_questions) |-> NoneNode]]
    /\ UNCHANGED exceptEngine

\* sub_question_query_engine.py:92-99: the event loop runs the tasks of a
\* gather in their order, each up to its await of query_engine.aquery; the
\* first steps of all tasks are scheduled when gather is called, so a task
\* starts also after an earlier one has raised
TaskStart ==
    /\ engine.pc = "gathering"
    /\ \E i \in Tasks :
          /\ engine.task[i] = "created"
          /\ \A j \in 1..(i - 1) : engine.task[j] # "created"
          /\ engine' = [engine EXCEPT !.task[i] = "awaiting"]
    /\ UNCHANGED exceptEngine

\* a task that waits for its query engine takes its next step: while the
\* tasks are gathered, and, the loop of the caller of _aquery going on,
\* also after gather has handed an exception to _aquery
TaskCanStep(i) ==
    /\ engine.pc \in {"gathering", "done"}
    /\ engine.task[i] = "awaiting"

\* sub_question_query_engine.py:99-109: the query engine of a sub-question
\* answers or raises ValueError, and the task returns
TaskFinish ==
    /\ \E i \in Tasks, outcome \in SubQuestionOutcomes :
          LET r == aquery_subq(engine.sub_questions[i], outcome)
          IN /\ TaskCanStep(i)
             /\ r.status = "ok"
             /\ engine' = [engine EXCEPT
                              !.task[i] = "done",
                              !.results[i] = r.node,
                              !.finished = Append(@, i)]
    /\ UNCHANGED exceptEngine

\* sub_question_query_engine.py:99: the query engine raises something that
\* is no ValueError and the task ends with it; the other tasks go on
TaskRaise ==
    /\ \E i \in Tasks, outcome \in SubQuestionOutcomes :
          LET r == aquery_subq(engine.sub_questions[i], outcome)
          IN /\ TaskCanStep(i)
             /\ r.status # "ok"
             /\ engine' = [engine EXCEPT !.task[i] = "raised"]
    /\ UNCHANGED exceptEngine

\* async_utils.py:38-41: under _query the exception leaves asyncio.run,
\* whose shutdown cancels the tasks that still wait; under _aquery
\* (sub_question_query_engine.py:82) they are left running
AfterGatherRaised(use_async, task) ==
    [k \in DOMAIN task |->
        IF task[k] = "awaiting" /\ ~use_async THEN "cancelled" ELSE task[k]]

\* sub_question_query_engine.py:62 and 82: gather hands the exception of a
\* task to _query or _aquery, some turns of the event loop after the task
\* raised: every task has started by then, and those that were quick
\* enough have ended; the synthesizer is not called
GatherRaises ==
    /\ engine.pc = "gathering"
    /\ \E i \in Tasks : engine.task[i] = "raised"
    /\ \A i \in Tasks : engine.task[i] # "created"
    /\ engine' = [engine EXCEPT
                     !.pc = "done",
                     !.task = AfterGatherRaised(engine.use_async, @),
                     !.synth = [NoSynthCall EXCEPT
                                   !.outcome = SynthRaised("RuntimeError")]]
    /\ UNCHANGED exceptEngine

\* sub_question_query_engine.py:62-67 and 82-87: gather returns once every
\* task has returned, and its result goes to synthesize (from _query) or
\* asynthesize (from _aquery)
GatherAndSynthesize ==
    /\ engine.pc = "gathering"
    /\ \A i \in Tasks : engine.task[i] = "done"
    /\ LET nodes == gather(engine.results, engine.finished)
       IN engine' = [engine EXCEPT
                        !.pc = "done",
                        !.synth =
                            [called |-> TRUE, nodes |-> nodes,
                             pending |-> {i \in Tasks :
                                            engine.task[i] # "done"},
                             outcome |->
                                 IF engine.use_async
                                 THEN asynthesize(QueryStr, nodes,
                                                  engine.has_optimizer,
                                                  engine.response_mode)
                                 ELSE synthesize(QueryStr, nodes,
                                                 engine.has_optimizer,
                                                 engine.response_mode)]]
    /\ UNCHANGED exceptEngine

\* the caller makes its next query; tasks a failed _aquery left running are
\* followed no further
NextQuery ==
    /\ engine.pc = "done"
    /\ engine' = EngineIdle(engine.has_optimizer, engine.response_mode)
    /\ UNCHANGED exceptEngine

NextEngine ==
    StartQuery \/ TaskStart \/ TaskFinish \/ TaskRaise \/ GatherRaises
        \/ GatherAndSynthesize \/ NextQuery

\* ======================================= construction: inserter and Prompt
\* characters of a prompt template
MaxTemplateLen == 3

TemplateChars == {"{", "}", "a", "b"}

RECURSIVE TemplatesUpTo(_)
TemplatesUpTo(n) ==
    IF n = 0 THEN {<<>>}
    ELSE TemplatesUpTo(n - 1)
         \cup {Append(t, c) :
                 t \in {u \in TemplatesUpTo(n - 1) : Len(u) = n - 1},
                 c \in TemplateChars}

\* variable names (sequences of characters) and the input_variables lists a
\* Prompt subclass declares
InputVariableLists ==
    {<<>>, <<<<"a">>>>, <<<<"b">>>>, <<<<"a">>, <<"b">>>>,
     <<<<"a">>, <<"a">>>>, <<<<"a", "b">>>>}

\* num_children arguments an inserter is constructed with
NumChildrenArgs == {-1, 0, 1, 2, 3}

\* string.Formatter().parse(template), as prompts/base.py:28 uses it: the
\* field names of the replacement fields, or ValueError for a single brace.
\* "{{" and "}}" are literal braces; a field runs from "{" to the next "}"
\* and may not hold a "{".
RECURSIVE ParseField(_, _, _, _)
RECURSIVE ParseLiteral(_, _, _)
ParseField(t, j, name, names) ==
    IF j > Len(t) THEN [error |-> TRUE, names |-> {}]
    ELSE IF t[j] = "{" THEN [error |-> TRUE, names |-> {}]
    ELSE IF t[j] = "}" THEN ParseLiteral(t, j + 1, names \cup {name})
    ELSE ParseField(t, j + 1, Append(name, t[j]), names)
ParseLiteral(t, i, names) ==
    IF i > Len(t) THEN [error |-> FALSE, names |-> names]
    ELSE IF t[i] = "{"
    THEN IF i = Len(t) THEN [error |-> TRUE, names |-> {}]
         ELSE IF t[i + 1] = "{" THEN ParseLiteral(t, i + 2, names)
         ELSE ParseField(t, i + 1, <<>>, names)
    ELSE IF t[i] = "}"
    THEN IF i < Len(t) /\ t[i + 1] = "}" THEN ParseLiteral(t, i + 2, names)
         ELSE [error |-> TRUE, names |-> {}]
    ELSE ParseLiteral(t, i + 1, names)

FormatterParse(template) == ParseLiteral(template, 1, {})

\* prompts/base.py:25-39: Prompt.__init__: "ValueError" or "ok"
prompt_init_subset(template, input_variables) ==
    LET parsed == FormatterParse(template)
    IN IF parsed.error THEN "ValueError"
       ELSE IF ~(parsed.names \subseteq Range(input_variables))
       THEN "ValueError"
       ELSE "ok"
prompt_init(template, input_variables) ==
    LET parsed == FormatterParse(template)
    IN IF parsed.error THEN "ValueError"
       ELSE IF parsed.names # Range(input_variables) THEN "ValueError"
       ELSE "ok"

\* inserter.py:22-43: GPTIndexInserter.__init__: "ValueError" or "ok"
inserter_init(nc) == IF nc < 2 THEN "ValueError" ELSE "ok"

NothingBuilt ==
    [kind |-> "none", num_children |-> 0, template |-> <<>>,
     input_variables |-> <<>>, status |-> "none", has_object |-> FALSE,
     used |-> FALSE]

InitBuilt == built = NothingBuilt
BuiltAtRest == InitBuilt

\* inserter.py:22-43: a GPTIndexInserter(...) expression is evaluated
ConstructInserter ==
    /\ \E nc \in NumChildrenArgs :
          built' = [NothingBuilt EXCEPT
                       !.kind = "inserter", !.num_children = nc,
                       !.status = inserter_init(nc),
                       !.has_object = (inserter_init(nc) = "ok")]
    /\ UNCHANGED exceptBuilt

\* prompts/base.py:25-39: a Prompt subclass is instantiated
ConstructPrompt ==
    /\ \E template \in TemplatesUpTo(MaxTemplateLen),
          input_variables \in InputVariableLists :
          built' = [NothingBuilt EXCEPT
                       !.kind = "prompt", !.template = template,
                       !.input_variables = input_variables,
                       !.status = prompt_init(template, input_variables),
                       !.has_object =
                           (prompt_init(template, input_variables) = "ok")]
    /\ UNCHANGED exceptBuilt

\* the object a constructor returned is used: an insert, a query, a format
UseBuilt ==
    /\ built.has_object
    /\ ~built.used
    /\ built' = [built EXCEPT !.used = TRUE]
    /\ UNCHANGED exceptBuilt

NextBuilt == ConstructInserter \/ ConstructPrompt \/ UseBuilt

\* ====================================================== llm_token_counter
\* wrapped calls that run at one time (nested in one thread, or
\* overlapping in two)
MaxDepth == 2
\* tokens one predictor counts over its life
MaxTokens == 4

\* tokens one LLMPredictor.predict call uses, values a wrapped method returns
TokensPerCall == {1, 2}
ReturnValues == {"r1", "r2"}

\* LLMPredictor.predict: the tokens of the call are added to
\* total_tokens_used and are the new last_token_usage
predict_tokens(p, tokens) ==
    [total_tokens_used |-> p.total_tokens_used + tokens,
     last_token_usage |-> tokens]

\* token_counter.py:41: the prologue of wrapped_llm_predict
wrapped_enter(p) == [start_token_ct |-> p.total_tokens_used]

\* token_counter.py:43: net_tokens, from the total read after f returned
wrapped_net_tokens(p, start_token_ct) ==
    p.total_tokens_used - start_token_ct

\* token_counter.py:44: net_tokens is stored in the predictor
wrapped_exit_resetting(p, net_tokens) ==
    [total_tokens_used |-> 0, last_token_usage |-> net_tokens]
wrapped_exit(p, net_tokens) ==
    [p EXCEPT !.last_token_usage = net_tokens]

\* the threads that run queries on the one predictor
Threads == {1, 2}

NoCall ==
    [returned |-> FALSE, raised |-> FALSE, depth |-> 0, entry_total |-> 0,
     f_return_total |-> 0, write_total |-> 0, exit_total |-> 0,
     exit_last |-> 0,
     f_return_val |-> "none", return_val |-> "none",
     own |-> 0, overlapped |-> FALSE]

InitCounter ==
    /\ predictor = [total_tokens_used |-> 0, last_token_usage |-> 0]
    /\ call_stack = <<>>
    /\ last_call = NoCall
CounterAtRest == InitCounter

\* call_stack holds the wrapped calls that are running, in the order they
\* were entered; the calls of one thread are nested in one another, and the
\* innermost call of a thread is the one that can end next in it.  A call
\* is at line 42 (pc "in_f") or between lines 43 and 44 (pc "exiting").
\* History kept per call: own, the tokens of the LLM requests made inside
\* it; overlapped, a call of another thread ran while it did
Innermost(i) ==
    \A k \in (i + 1)..Len(call_stack) :
        call_stack[k].thread # call_stack[i].thread
DepthOf(i) ==
    Cardinality({k \in 1..i : call_stack[k].thread = call_stack[i].thread})
WithoutCall(i) ==
    SubSeq(call_stack, 1, i - 1) \o SubSeq(call_stack, i + 1, Len(call_stack))

\* the thread is inside a wrapper, between its lines 43 and 44
InEpilogue(t) ==
    \E k \in 1..Len(call_stack) :
        call_stack[k].thread = t /\ call_stack[k].pc = "exiting"

\* token_counter.py:33-41: a wrapped method is called in a thread
\* (query/base.py:166, or a wrapped method called from inside one)
EnterWrapped ==
    /\ Len(call_stack) < MaxDepth
    /\ \E t \in Threads :
          /\ ~InEpilogue(t)
          /\ call_stack' =
                Append([k \in 1..Len(call_stack) |->
                           IF call_stack[k].thread = t THEN call_stack[k]
                           ELSE [call_stack[k] EXCEPT !.overlapped = TRUE]],
                       [frame |-> wrapped_enter(predictor),
                        entry_total |-> predictor.total_tokens_used,
                        thread |-> t, own |-> 0,
                        overlapped |-> \E k \in 1..Len(call_stack) :
                                           call_stack[k].thread # t,
                        pc |-> "in_f", net_tokens |-> 0,
                        f_return_total |-> 0, f_return_val |-> "none"])
    /\ last_call' = NoCall
    /\ UNCHANGED predictor
    /\ UNCHANGED exceptCounter

\* an LLM call made by a thread, inside the wrapped methods it is running
\* or outside of any; the request belongs to every call it is made inside
Predict ==
    /\ \E tokens \in TokensPerCall, t \in Threads :
          /\ ~InEpilogue(t)
          /\ predictor.total_tokens_used + tokens <= MaxTokens
          /\ predictor' = predict_tokens(predictor, tokens)
          /\ call_stack' =
                [k \in 1..Len(call_stack) |->
                    IF call_stack[k].thread = t
                    THEN [call_stack[k] EXCEPT !.own = @ + tokens]
                    ELSE call_stack[k]]
    /\ UNCHANGED last_call
    /\ UNCHANGED exceptCounter

\* token_counter.py:42-43: the innermost wrapped method of a thread returns
\* a value and the wrapper reads total_tokens_used for net_tokens
MethodReturns ==
    /\ \E i \in 1..Len(call_stack), val \in ReturnValues :
          /\ Innermost(i)
          /\ call_stack[i].pc = "in_f"
          /\ call_stack' =
                [call_stack EXCEPT
                    ![i].pc = "exiting",
                    ![i].net_tokens =
                        wrapped_net_tokens(predictor,
                                           call_stack[i].frame.start_token_ct),
                    ![i].f_return_total = predictor.total_tokens_used,
                    ![i].f_return_val = val]
    /\ UNCHANGED <<predictor, last_call>>
    /\ UNCHANGED exceptCounter

\* token_counter.py:44-47: the wrapper stores net_tokens in last_token_usage
\* and returns the value of f; requests of other threads may have been
\* made since line 43
ReturnWrapped ==
    /\ \E i \in 1..Len(call_stack) :
          LET call == call_stack[i]
              p == wrapped_exit(predictor, call.net_tokens)
          IN /\ call.pc = "exiting"
             /\ predictor' = p
             /\ last_call' =
                   [returned |-> TRUE, raised |-> FALSE,
                    depth |-> DepthOf(i),
                    entry_total |-> call.entry_total,
                    f_return_total |-> call.f_return_total,
                    write_total |-> predictor.total_tokens_used,
                    exit_total |-> p.total_tokens_used,
                    exit_last |-> p.last_token_usage,
                    f_return_val |-> call.f_return_val,
                    return_val |-> call.f_return_val,
                    own |-> call.own, overlapped |-> call.overlapped]
             /\ call_stack' = WithoutCall(i)
    /\ UNCHANGED exceptCounter

\* token_counter.py:42: the innermost wrapped method of a thread raises; the
\* wrapper has no handler, so lines 43-47 do not run
RaiseWrapped ==
    /\ \E i \in 1..Len(call_stack) :
          /\ Innermost(i)
          /\ call_stack[i].pc = "in_f"
          /\ last_call' = [NoCall EXCEPT
                              !.raised = TRUE, !.depth = DepthOf(i),
                              !.entry_total = call_stack[i].entry_total,
                              !.f_return_total = predictor.total_tokens_used,
                              !.write_total = predictor.total_tokens_used,
                              !.exit_total = predictor.total_tokens_used,
                              !.exit_last = predictor.last_token_usage,
                              !.own = call_stack[i].own,
                              !.overlapped = call_stack[i].overlapped]
          /\ call_stack' = WithoutCall(i)
    /\ UNCHANGED predictor
    /\ UNCHANGED exceptCounter

NextCounter ==
    EnterWrapped \/ Predict \/ MethodReturns \/ ReturnWrapped
        \/ RaiseWrapped

\* ============================================= BaseIndex.refresh_ref_docs
\* documents handed to one refresh_ref_docs call
MaxDocs == 2

DocIds == {1, 2}
DocHashes == {"x", "y"}
\* the docstore holds no hash for an id (get_document_hash gives None)
NoHash == "None"
Documents == [id : DocIds, hash : DocHashes]

RECURSIVE DocListsUpTo(_)
DocListsUpTo(n) ==
    IF n = 0 THEN {<<>>}
    ELSE DocListsUpTo(n - 1)
         \cup {Append(l, d) :
                 l \in {u \in DocListsUpTo(n - 1) : Len(u) = n - 1},
                 d \in Documents}

\* The index and its docstore, as far as refresh looks at them: hash, the
\* hash kept per document id; ops, the inserts and deletes made so far in
\* this call.
\* llama_index/indices/base.py:245-255: BaseIndex.insert: the nodes of the
\* document are inserted, then its hash is stored
insert_document_unhashed(ix, document) ==
    [hash |-> ix.hash,
     ops |-> Append(ix.ops, [op |-> "insert", id |-> document.id])]
insert_document(ix, document) ==
    [hash |-> [ix.hash EXCEPT ![document.id] = document.hash],
     ops |-> Append(ix.ops, [op |-> "insert", id |-> document.id])]

\* llama_index/indices/base.py:294-310: BaseIndex.delete_ref_doc: nothing
\* is done for an id the docstore holds no document of (lines 298-301);
\* else the nodes leave the index, and with delete_from_docstore the
\* document and its hash leave the docstore
delete_ref_doc(ix, ref_doc_id, delete_from_docstore) ==
    IF ix.hash[ref_doc_id] = NoHash THEN ix
    ELSE [hash |-> IF delete_from_docstore
                   THEN [ix.hash EXCEPT ![ref_doc_id] = NoHash]
                   ELSE ix.hash,
          ops |-> Append(ix.ops, [op |-> "delete", id |-> ref_doc_id])]

\* llama_index/indices/base.py:329-346: BaseIndex.update_ref_doc
update_ref_doc(ix, document) ==
    insert_document(delete_ref_doc(ix, document.id, TRUE), document)

\* llama_index/indices/base.py:373-387: the loop of refresh_ref_docs from
\* document i on; refreshed is the list of booleans so far
RECURSIVE RefreshFrom(_, _, _, _)
RefreshFrom(ix, documents, i, refreshed) ==
    IF i > Len(documents) THEN [ix |-> ix, refreshed |-> refreshed]
    ELSE LET document == documents[i]
             existing_doc_hash == ix.hash[document.id]
         IN IF existing_doc_hash = NoHash
            THEN RefreshFrom(insert_document(ix, document), documents, i + 1,
                             [refreshed EXCEPT ![i] = TRUE])
            ELSE IF existing_doc_hash # document.hash
            THEN RefreshFrom(update_ref_doc(ix, document), documents, i + 1,
                             [refreshed EXCEPT ![i] = TRUE])
            ELSE RefreshFrom(ix, documents, i + 1, refreshed)

\* llama_index/indices/base.py:363-387: BaseIndex.refresh_ref_docs
refresh_ref_docs(hash, documents) ==
    RefreshFrom([hash |-> hash, ops |-> <<>>], documents, 1,
                [k \in 1..Len(documents) |-> FALSE])

NoRefresh ==
    [called |-> FALSE, documents |-> <<>>, refreshed |-> <<>>,
     ops |-> <<>>, hash_before |-> [id \in DocIds |-> NoHash],
     repeats |-> FALSE, touched |-> FALSE]

\* an index over no document
InitRefresh ==
    /\ doc_hash = [id \in DocIds |-> NoHash]
    /\ last_refresh = NoRefresh
RefreshAtRest == InitRefresh

\* llama_index/indices/base.py:363-387: a refresh_ref_docs call
RefreshRefDocs ==
    /\ \E documents \in DocListsUpTo(MaxDocs) :
          LET r == refresh_ref_docs(doc_hash, documents)
          IN /\ doc_hash' = r.ix.hash
             /\ last_refresh' =
                   [called |-> TRUE, documents |-> documents,
                    refreshed |-> r.refreshed, ops |-> r.ix.ops,
                    hash_before |-> doc_hash,
                    repeats |-> /\ last_refresh.called
                                /\ ~last_refresh.touched
                                /\ last_refresh.documents = documents,
                    touched |-> FALSE]
    /\ UNCHANGED exceptRefresh

\* llama_index/indices/base.py:245-255: an insert call of the caller
InsertDocument ==
    /\ \E document \in Documents :
          doc_hash' = insert_document([hash |-> doc_hash, ops |-> <<>>],
                                      document).hash
    /\ last_refresh' = [last_refresh EXCEPT !.touched = TRUE]
    /\ UNCHANGED exceptRefresh

\* llama_index/indices/base.py:294-310: a delete_ref_doc call of the
\* caller, with delete_from_docstore or without
DeleteRefDoc ==
    /\ \E id \in DocIds, delete_from_docstore \in BOOLEAN :
          doc_hash' = delete_ref_doc([hash |-> doc_hash, ops |-> <<>>],
                                     id, delete_from_docstore).hash
    /\ last_refresh' = [last_refresh EXCEPT !.touched = TRUE]
    /\ UNCHANGED exceptRefresh

\* llama_index/indices/base.py:329-346: an update_ref_doc call of the caller
UpdateRefDoc ==
    /\ \E document \in Documents :
          doc_hash' = update_ref_doc([hash |-> doc_hash, ops |-> <<>>],
                                     document).hash
    /\ last_refresh' = [last_refresh EXCEPT !.touched = TRUE]
    /\ UNCHANGED exceptRefresh

NextRefresh ==
    RefreshRefDocs \/ InsertDocument \/ DeleteRefDoc \/ UpdateRefDoc

\* =========================================================== batch_gather
\* tasks handed to one batch_gather call
MaxTasks == 4
\* largest batch_size of a call
MaxBatchSize == 4

\* an entry of a chunk that stands for no task (the fill value None)
NoTask == 0

\* the result of task i
ResultOf(i) == <<"result", i>>

\* async_utils.py:45-47: chunks(iterable, size): zip_longest over size
\* references to one iterator: consecutive groups of size entries, the last
\* one filled up with None
chunks(n, size) ==
    [c \in 1..((n + size - 1) \div size) |->
        [k \in 1..size |->
            IF (c - 1) * size + k <= n THEN (c - 1) * size + k ELSE NoTask]]

\* asyncio.gather(*task_chunk): ensure_future wraps the arguments one after
\* the other and raises TypeError at the first that is no awaitable; the
\* coroutines wrapped before it are scheduled on the loop all the same
Wrapped(task_chunk) ==
    {task_chunk[k] : k \in {j \in 1..Len(task_chunk) :
                              \A h \in 1..j : task_chunk[h] # NoTask}}
HasNoTask(task_chunk) == \E k \in 1..Len(task_chunk) : task_chunk[k] = NoTask

BatchIdle ==
    [pc |-> "idle", n |-> 0, batch_size |-> 1, pending |-> <<>>,
     task_chunk |-> <<>>, task |-> <<>>, output |-> <<>>,
     started_early |-> FALSE]

InitBatch == batch = BatchIdle
BatchAtRest == InitBatch

\* async_utils.py:50-54: batch_gather is called with n coroutines
CallBatchGather ==
    /\ batch.pc = "idle"
    /\ \E n \in 0..MaxTasks, batch_size \in 1..MaxBatchSize :
          batch' = [BatchIdle EXCEPT
                       !.pc = "loop", !.n = n, !.batch_size = batch_size,
                       !.pending = chunks(n, batch_size),
                       !.task = [i \in 1..n |-> "created"]]
    /\ UNCHANGED exceptBatch

\* async_utils.py:54-55: the next chunk goes to asyncio.gather; started_early
\* records whether a task of an earlier chunk has not completed
GatherChunk ==
    /\ batch.pc = "loop"
    /\ batch.pending # <<>>
    /\ LET task_chunk == Head(batch.pending)
       IN batch' = [batch EXCEPT
                       !.pc = IF HasNoTask(task_chunk) THEN "TypeError"
                              ELSE "awaiting",
                       !.pending = Tail(@),
                       !.task_chunk = task_chunk,
                       !.task = [i \in 1..batch.n |->
                                    IF i \in Wrapped(task_chunk)
                                    THEN "running" ELSE @[i]],
                       !.started_early =
                           \/ @
                           \/ /\ Wrapped(task_chunk) # {}
                              /\ \E i \in 1..batch.n :
                                    batch.task[i] = "running"]
    /\ UNCHANGED exceptBatch

\* a task scheduled on the loop runs to its end
TaskComplete ==
    /\ \E i \in 1..batch.n :
          /\ batch.task[i] = "running"
          /\ batch' = [batch EXCEPT !.task[i] = "done"]
    /\ UNCHANGED exceptBatch

\* async_utils.py:55-56: gather returns the results of the chunk in the
\* order of its arguments once all its tasks are done; output.extend
ExtendOutput ==
    /\ batch.pc = "awaiting"
    /\ \A k \in 1..Len(batch.task_chunk) :
          batch.task[batch.task_chunk[k]] = "done"
    /\ batch' = [batch EXCEPT
                    !.pc = "loop",
                    !.output = @ \o [k \in 1..Len(batch.task_chunk) |->
                                        ResultOf(batch.task_chunk[k])]]
    /\ UNCHANGED exceptBatch

\* async_utils.py:59: the loop is over, output is returned
ReturnOutput ==
    /\ batch.pc = "loop"
    /\ batch.pending = <<>>
    /\ batch' = [batch EXCEPT !.pc = "returned"]
    /\ UNCHANGED exceptBatch

\* the caller makes its next call once the loop has nothing left to run
NextBatchCall ==
    /\ batch.pc \in {"returned", "TypeError"}
    /\ \A i \in 1..batch.n : batch.task[i] # "running"
    /\ batch' = BatchIdle
    /\ UNCHANGED exceptBatch

NextBatch ==
    CallBatchGather \/ GatherChunk \/ TaskComplete \/ ExtendOutput
        \/ ReturnOutput \/ NextBatchCall

\* ================================== BaseSpanHandler and DispatcherMixin.span
\* decorated calls of one run (nested or one after the other)
MaxCalls == 5
\* handlers added to one dispatcher
MaxHandlers == 2

SpanIds == {"a", "b", "c"}
\* current_span_id and parent_id of None
NoSpan == "None"
\* DispatcherMixin.span passes id=id: no id is bound in wrapper, so the name
\* is the builtin function id, the same object for every call
BuiltinId == "<built-in function id>"

\* span_handlers/base.py:11-16: a handler without spans; open_spans maps an
\* id to the parent_id of its span
NewHandler == [open_spans |-> <<>>, current_span_id |-> NoSpan]
OpenIds(h) == DOMAIN h.open_spans

\* span_handlers/base.py:25-35: BaseSpanHandler.span_enter; made tells
\* whether new_span returned a span
handler_span_enter(h, id, made) ==
    IF id \in OpenIds(h) \/ ~made THEN h
    ELSE [open_spans |-> (id :> h.current_span_id) @@ h.open_spans,
          current_span_id |-> id]

\* span_handlers/base.py:37-42: BaseSpanHandler.span_exit; a KeyError at
\* line 41 or 42 for an id that is not open leaves the handler as it was
SpanExitRaises(h, id) == id \notin OpenIds(h)
handler_span_exit(h, id) ==
    IF SpanExitRaises(h, id) THEN h
    ELSE [open_spans |-> [k \in OpenIds(h) \ {id} |-> h.open_spans[k]],
          current_span_id |-> IF h.current_span_id = id
                              THEN h.open_spans[id]
                              ELSE h.current_span_id]

NoSpanCall ==
    [op |-> "none", id |-> NoSpan, opened |-> FALSE, parent_id |-> NoSpan,
     parent_open |-> FALSE, status |-> "none"]

\* dispatcher.py:60-69: the run of decorated calls: depth, the wrappers
\* that have not ended; history: the span_enter and span_exit notices sent
\* to the handlers, the calls that ended, the error the instrumentation
\* raised, whether a span_exit was ever asked for an id that was not open
NoRun ==
    [depth |-> 0, enters |-> 0, exits |-> 0, ended |-> 0, error |-> "none",
     func_raised |-> FALSE]

InitSpan ==
    /\ handlers = <<NewHandler>>
    /\ last_span = NoSpanCall
    /\ exit_misused = FALSE
    /\ span_run = NoRun
SpanAtRest == InitSpan

\* span_handlers/base.py:25-35: span_enter(id) on the handler
SpanEnter ==
    /\ \E id \in SpanIds, made \in BOOLEAN :
          LET h == handlers[1]
              h1 == handler_span_enter(h, id, made)
          IN /\ handlers' = [handlers EXCEPT ![1] = h1]
             /\ last_span' =
                   [op |-> "enter", id |-> id,
                    opened |-> id \notin OpenIds(h) /\ made,
                    parent_id |-> IF id \in OpenIds(h1)
                                  THEN h1.open_spans[id] ELSE NoSpan,
                    parent_open |-> h.current_span_id \in OpenIds(h),
                    status |-> "ok"]
    /\ UNCHANGED <<exit_misused, span_run>>
    /\ UNCHANGED exceptSpan

\* span_handlers/base.py:37-42: span_exit(id) on the handler
SpanExit ==
    /\ \E id \in SpanIds :
          LET h == handlers[1]
          IN /\ handlers' = [handlers EXCEPT ![1] = handler_span_exit(h, id)]
             /\ last_span' =
                   [NoSpanCall EXCEPT
                      !.op = "exit", !.id = id,
                      !.status = IF SpanExitRaises(h, id) THEN "KeyError"
                                 ELSE "ok"]
             /\ exit_misused' = (exit_misused \/ SpanExitRaises(h, id))
    /\ UNCHANGED span_run
    /\ UNCHANGED exceptSpan

NextSpan == SpanEnter \/ SpanExit

\* dispatcher.py:31-34: Dispatcher.span_enter: every handler is told
dispatcher_span_enter(hs, id) ==
    [k \in 1..Len(hs) |-> handler_span_enter(hs[k], id, TRUE)]

\* dispatcher.py:36-39: Dispatcher.span_exit: every handler is told, up to
\* the first that raises
DispatchExitRaises(hs, id) ==
    \E k \in 1..Len(hs) : SpanExitRaises(hs[k], id)
dispatcher_span_exit(hs, id) ==
    [k \in 1..Len(hs) |->
        IF \E j \in 1..k : SpanExitRaises(hs[j], id) THEN hs[k]
        ELSE handler_span_exit(hs[k], id)]

\* dispatcher.py:10-12: a dispatcher is made without handlers
InitDispatch ==
    /\ handlers = <<>>
    /\ last_span = NoSpanCall
    /\ exit_misused = FALSE
    /\ span_run = NoRun

\* dispatcher.py:21-23: Dispatcher.add_handler, between decorated calls or
\* from inside one
AddHandler ==
    /\ Len(handlers) < MaxHandlers
    /\ handlers' = Append(handlers, NewHandler)
    /\ UNCHANGED <<last_span, exit_misused, span_run>>
    /\ UNCHANGED exceptSpan

\* dispatcher.py:64-66: a decorated method is called (from outside, or from
\* inside a decorated method): the wrapper sends span_enter and calls func
CallDecorated ==
    /\ span_run.error = "none"
    /\ span_run.enters < MaxCalls
    /\ handlers' = dispatcher_span_enter(handlers, BuiltinId)
    /\ span_run' = [span_run EXCEPT !.depth = @ + 1, !.enters = @ + 1]
    /\ UNCHANGED <<last_span, exit_misused>>
    /\ UNCHANGED exceptSpan

\* dispatcher.py:66-67: func returns and the wrapper sends span_exit; a
\* KeyError of a handler leaves the wrapper and, nothing catching it, the
\* decorated methods around it
ReturnDecorated ==
    /\ span_run.depth > 0
    /\ handlers' = dispatcher_span_exit(handlers, BuiltinId)
    /\ span_run' = IF DispatchExitRaises(handlers, BuiltinId)
                   THEN [span_run EXCEPT !.depth = 0, !.exits = @ + 1,
                                         !.ended = @ + span_run.depth,
                                         !.error = "KeyError"]
                   ELSE [span_run EXCEPT !.depth = @ - 1, !.exits = @ + 1,
                                         !.ended = @ + 1]
    /\ UNCHANGED <<last_span, exit_misused>>
    /\ UNCHANGED exceptSpan

\* dispatcher.py:66: func raises; line 67 does not run
RaiseDecorated ==
    /\ span_run.depth > 0
    /\ span_run' = [span_run EXCEPT !.depth = @ - 1, !.ended = @ + 1,
                                  !.func_raised = TRUE]
    /\ UNCHANGED <<handlers, last_span, exit_misused>>
    /\ UNCHANGED exceptSpan

\* the next run, on a new dispatcher
NextRun ==
    /\ span_run.depth = 0
    /\ span_run.ended > 0
    /\ span_run' = NoRun
    /\ handlers' = <<>>
    /\ UNCHANGED <<last_span, exit_misused>>
    /\ UNCHANGED exceptSpan

NextDispatch ==
    AddHandler \/ CallDecorated \/ ReturnDecorated \/ RaiseDecorated
        \/ NextRun

\* ============================================ BaseGPTIndexQuery._query_node
\* ids a node's ref_doc_id can hold, and what the docstore holds for an id:
\* an index struct, a plain document, or nothing
RefDocIds == {"d1", "d2"}
NoRefDoc == "None"
DocKinds == {"index", "document", "missing"}

\* BaseQueryRunner.query(query_str, index_struct): the answer of the nested
\* index (the echo mock names the index it queried)
nested_query(query_str, ref_doc_id) == <<"N(", ref_doc_id, ")">>

\* query/base.py:111-116: the docstore is asked for the referenced document
LooksUpDocument(env, ref_doc_id) ==
    env.has_query_runner /\ ref_doc_id # NoRefDoc /\ env.has_docstore

QueryNodeRaised(error) ==
    [status |-> error, branch |-> "raised", response |-> None,
     calls |-> <<>>, nested |-> None]

\* query/base.py:86-151: BaseGPTIndexQuery._query_node; get_document is
\* called with raise_error=True and raises ValueError for an id the
\* docstore does not hold
query_node_trusting(env, query_str, text, ref_doc_id, response) ==
    IF LooksUpDocument(env, ref_doc_id)
          /\ env.docs[ref_doc_id] = "missing"
    THEN QueryNodeRaised("ValueError")
    ELSE IF LooksUpDocument(env, ref_doc_id)
    THEN LET query_response == nested_query(query_str, ref_doc_id)
             r == refine_response_single(response, query_str, query_response)
         IN IF response = None
            THEN [status |-> "ok", branch |-> "nested",
                  response |-> query_response, calls |-> <<>>,
                  nested |-> query_response]
            ELSE [status |-> "ok", branch |-> "nested",
                  response |-> r.response, calls |-> r.calls,
                  nested |-> query_response]
    ELSE LET r == get_response_over_chunks(query_str, <<text>>, response)
         IN [status |-> r.status, branch |-> "text",
             response |-> r.response, calls |-> r.calls, nested |-> None]
query_node(env, query_str, text, ref_doc_id, response) ==
    IF LooksUpDocument(env, ref_doc_id)
          /\ env.docs[ref_doc_id] = "missing"
    THEN QueryNodeRaised("ValueError")
    ELSE IF LooksUpDocument(env, ref_doc_id)
               /\ env.docs[ref_doc_id] = "index"
    THEN LET query_response == nested_query(query_str, ref_doc_id)
             r == refine_response_single(response, query_str, query_response)
         IN IF response = None
            THEN [status |-> "ok", branch |-> "nested",
                  response |-> query_response, calls |-> <<>>,
                  nested |-> query_response]
            ELSE [status |-> "ok", branch |-> "nested",
                  response |-> r.response, calls |-> r.calls,
                  nested |-> query_response]
    ELSE LET r == get_response_over_chunks(query_str, <<text>>, response)
         IN [status |-> r.status, branch |-> "text",
             response |-> r.response, calls |-> r.calls, nested |-> None]

NoQueryNodeCall ==
    [called |-> FALSE, query_str |-> None, text |-> <<>>,
     ref_doc_id |-> NoRefDoc, prev_response |-> None,
     outcome |-> QueryNodeRaised("none")]

\* query/base.py:38-69: the query object is built with or without a query
\* runner and a docstore
InitQueryNode ==
    /\ \E has_query_runner \in BOOLEAN, has_docstore \in BOOLEAN,
          docs \in [RefDocIds -> DocKinds] :
          query_env = [has_query_runner |-> has_query_runner,
                       has_docstore |-> has_docstore, docs |-> docs]
    /\ last_query_node = NoQueryNodeCall
QueryNodeAtRest ==
    /\ query_env = [has_query_runner |-> FALSE, has_docstore |-> FALSE,
                    docs |-> [d \in RefDocIds |-> "missing"]]
    /\ last_query_node = NoQueryNodeCall

\* query/base.py:86-151: a _query_node call
QueryNode ==
    /\ \E q \in Queries, text \in Chunks,
          ref_doc_id \in RefDocIds \cup {NoRefDoc},
          response \in PrevResponses :
          last_query_node' =
              [called |-> TRUE, query_str |-> q, text |-> text,
               ref_doc_id |-> ref_doc_id, prev_response |-> response,
               outcome |-> query_node(query_env, q, text, ref_doc_id,
                                      response)]
    /\ UNCHANGED query_env
    /\ UNCHANGED exceptQueryNode

NextQueryNode == QueryNode

\* the objects outside the tree, the builder and the filter, left alone
OthersAtRest ==
    /\ EngineAtRest
    /\ BuiltAtRest
    /\ CounterAtRest
    /\ RefreshAtRest
    /\ BatchAtRest
    /\ SpanAtRest
    /\ QueryNodeAtRest

\* ------------------------------------------------------------------ tree
InitTree ==
    /\ num_children \in FanOuts
    /\ \E k \in InitLeafCounts :
          LET b == BuildIndex(k, num_children)
          IN /\ index_graph = b.g
             /\ node_text = b.text
             /\ docstore = b.docs
             /\ leaf_text = [i \in 1..k |-> SourceText(i)]
    /\ inserted = 0
    /\ failed_calls = 0
    /\ last_insert = [nodes |-> <<>>, status |-> "none", log |-> <<>>,
                      placed |-> <<>>, pre |-> NoFailure, splits |-> <<>>]

\* BaseIndex.insert_nodes (llama_index/indices/base.py:238-243): the nodes
\* are added to the docstore, then handed to the inserter's insert.
InsertNodes ==
    /\ \E n \in BatchSizes :
       \E texts \in [1..n -> LeafTexts] :
          /\ inserted + n <= MaxNodes
          /\ failed_calls <= MaxRecoveries
          /\ inserted' = inserted + n
          /\ LET n0 == Len(node_text)
                 nodes == [k \in 1..n |-> n0 + k]
                 st0 == [g |-> index_graph,
                         text |-> node_text \o texts,
                         docs |-> add_documents(docstore, Range(nodes)),
                         status |-> "ok", log |-> <<>>, placed |-> <<>>,
                         pre |-> NoFailure, splits |-> <<>>]
             IN \E out \in insert(st0, nodes, num_children) :
                   /\ index_graph' = out.g
                   /\ node_text' = out.text
                   /\ docstore' = out.docs
                   /\ leaf_text' = leaf_text @@
                                     [i \in Range(nodes) |-> texts[i - n0]]
                   /\ failed_calls' = IF out.status = "ok" THEN failed_calls
                                      ELSE failed_calls + 1
                   /\ last_insert' = [nodes |-> nodes, status |-> out.status,
                                      log |-> out.log,
                                      placed |-> out.placed,
                                      pre |-> out.pre,
                                      splits |-> out.splits]
    /\ UNCHANGED <<num_children, builderVars, filterVars, otherVars>>

NextTree == InsertNodes

\* source texts of the leaves of an index grown from nothing
GrowTexts == {<<"a">>, <<"b">>}

\* the number of leaves that must give a tree its second summary level
GrowLeaves(nc) == nc * 3 + 1

\* llama_index/indices/base.py:238-243 and inserter.py:156-159: one node is
\* added to the docstore and handed to insert; the caller stops at the first
\* insert that raises
InsertOne ==
    /\ \E text \in GrowTexts :
          /\ inserted < GrowLeaves(num_children)
          /\ failed_calls = 0
          /\ inserted' = inserted + 1
          /\ LET node == Len(node_text) + 1
                 st0 == [g |-> index_graph,
                         text |-> Append(node_text, text),
                         docs |-> add_documents(docstore, {node}),
                         status |-> "ok", log |-> <<>>, placed |-> <<>>,
                         pre |-> NoFailure, splits |-> <<>>]
             IN \E out \in insert(st0, <<node>>, num_children) :
                   /\ index_graph' = out.g
                   /\ node_text' = out.text
                   /\ docstore' = out.docs
                   /\ leaf_text' = leaf_text @@ (node :> text)
                   /\ failed_calls' = IF out.status = "ok" THEN failed_calls
                                      ELSE failed_calls + 1
                   /\ last_insert' = [nodes |-> <<node>>,
                                      status |-> out.status,
                                      log |-> out.log,
                                      placed |-> out.placed,
                                      pre |-> out.pre,
                                      splits |-> out.splits]
    /\ UNCHANGED <<num_children, builderVars, filterVars, otherVars>>

NextGrow == InsertOne

\* an inserter over an empty graph that is left alone
TreeAtRest ==
    /\ InitTree
    /\ num_children = 2
    /\ index_graph = EmptyGraph

Init == InitTree /\ InitBuilder /\ FilterAtRest /\ OthersAtRest

\* the tree inserter
SpecTree == Init /\ [][NextTree]_vars

\* the response builder
InitB == TreeAtRest /\ InitBuilder /\ FilterAtRest /\ OthersAtRest
SpecBuilder == InitB /\ [][NextBuilder]_vars

\* an index grown from nothing, one leaf per insert call
InitGrow ==
    /\ InitTree
    /\ index_graph = EmptyGraph
    /\ InitBuilder
    /\ FilterAtRest
    /\ OthersAtRest
SpecGrow == InitGrow /\ [][NextGrow]_vars

\* the sub-question query engine
InitE ==
    /\ TreeAtRest
    /\ InitBuilder
    /\ FilterAtRest
    /\ InitEngine
    /\ BuiltAtRest
    /\ CounterAtRest
    /\ RefreshAtRest
    /\ BatchAtRest
    /\ SpanAtRest
    /\ QueryNodeAtRest
SpecEngine == InitE /\ [][NextEngine]_vars

\* the constructors
InitC ==
    /\ TreeAtRest
    /\ InitBuilder
    /\ FilterAtRest
    /\ EngineAtRest
    /\ InitBuilt
    /\ CounterAtRest
    /\ RefreshAtRest
    /\ BatchAtRest
    /\ SpanAtRest
    /\ QueryNodeAtRest
SpecConstruct == InitC /\ [][NextBuilt]_vars

\* the token counter
InitT ==
    /\ TreeAtRest
    /\ InitBuilder
    /\ FilterAtRest
    /\ EngineAtRest
    /\ BuiltAtRest
    /\ InitCounter
    /\ RefreshAtRest
    /\ BatchAtRest
    /\ SpanAtRest
    /\ QueryNodeAtRest
SpecCounter == InitT /\ [][NextCounter]_vars

\* refresh of the documents of an index
InitR ==
    /\ TreeAtRest
    /\ InitBuilder
    /\ FilterAtRest
    /\ EngineAtRest
    /\ BuiltAtRest
    /\ CounterAtRest
    /\ InitRefresh
    /\ BatchAtRest
    /\ SpanAtRest
    /\ QueryNodeAtRest
SpecRefresh == InitR /\ [][NextRefresh]_vars

\* batch_gather
InitG ==
    /\ TreeAtRest
    /\ InitBuilder
    /\ FilterAtRest
    /\ EngineAtRest
    /\ BuiltAtRest
    /\ CounterAtRest
    /\ RefreshAtRest
    /\ InitBatch
    /\ SpanAtRest
    /\ QueryNodeAtRest
SpecBatch == InitG /\ [][NextBatch]_vars

\* the span handler
InitS ==
    /\ TreeAtRest
    /\ InitBuilder
    /\ FilterAtRest
    /\ EngineAtRest
    /\ BuiltAtRest
    /\ CounterAtRest
    /\ RefreshAtRest
    /\ BatchAtRest
    /\ InitSpan
    /\ QueryNodeAtRest
SpecSpan == InitS /\ [][NextSpan]_vars

\* methods decorated with DispatcherMixin.span
InitD ==
    /\ TreeAtRest
    /\ InitBuilder
    /\ FilterAtRest
    /\ EngineAtRest
    /\ BuiltAtRest
    /\ CounterAtRest
    /\ RefreshAtRest
    /\ BatchAtRest
    /\ InitDispatch
    /\ QueryNodeAtRest
SpecDispatch == InitD /\ [][NextDispatch]_vars

\* _query_node of the query classes
InitQ ==
    /\ TreeAtRest
    /\ InitBuilder
    /\ FilterAtRest
    /\ EngineAtRest
    /\ BuiltAtRest
    /\ CounterAtRest
    /\ RefreshAtRest
    /\ BatchAtRest
    /\ SpanAtRest
    /\ InitQueryNode
SpecQueryNode == InitQ /\ [][NextQueryNode]_vars

\* the keyword filter of the query classes
InitF == TreeAtRest /\ InitBuilder /\ InitFilter /\ OthersAtRest
SpecFilter == InitF /\ [][NextFilter]_vars

\* ===================================================== tree properties
\* every insert call so far returned normally
AllReturnedNormally == failed_calls = 0

\* the parents of the graph: the virtual root and every registered node
Parents == {NoParent} \cup Range(index_graph.all_nodes)

\* the summary nodes the last insert call created
CreatedByLastInsert ==
    {id \in 1..Len(node_text) :
        /\ last_insert.nodes # <<>>
        /\ id > last_insert.nodes[Len(last_insert.nodes)]}

LogKinds == {last_insert.log[k].kind : k \in 1..Len(last_insert.log)}

\* C1: after insert calls that all returned normally, neither the root set
\* nor any node has more than num_children direct children.
C1_FanOutBounded ==
    AllReturnedNormally =>
        \A p \in Parents :
            Cardinality(get_children(index_graph, p)) <= num_children

\* C1 witness: an insert returned normally after a consolidation of the
\* root set (which held num_children + 1 nodes inside the call).
C1_Witness ==
    /\ last_insert.status = "ok"
    /\ AllReturnedNormally
    /\ "summary2" \in LogKinds
    /\ \E k \in 1..Len(last_insert.log) :
          /\ last_insert.log[k].kind = "summary2"
          /\ last_insert.log[k].parent = NoParent
    /\ Cardinality(index_graph.root_nodes) = 2

\* the registered nodes that list index i as a child
ParentsOf(i) ==
    {p \in Range(index_graph.all_nodes) :
        i \in get_children_indices(index_graph, p)}

\* C2: after insert calls that all returned normally, every node that is
\* not a root is in the child list of exactly one node, and no root is in
\* any child list.
C2_OneParent ==
    AllReturnedNormally =>
        \A i \in Indices(index_graph) :
            IF i \in index_graph.root_nodes
            THEN ParentsOf(i) = {}
            ELSE Cardinality(ParentsOf(i)) = 1

\* C2 witness: a consolidation returned normally and a node it absorbed is
\* now the child of a summary node the call created, not of the old parent.
C2_Witness ==
    /\ last_insert.status = "ok"
    /\ AllReturnedNormally
    /\ \E s \in CreatedByLastInsert :
          /\ get_index(index_graph, s) \in index_graph.root_nodes
          /\ \E i \in get_children_indices(index_graph, s) :
                /\ i \notin index_graph.root_nodes
                /\ ParentsOf(i) = {s}

\* the answer has no parseable integer, or its first integer is outside 1..n
IsFallbackAnswer(resp, n) ==
    LET numbers == SelectSeq(resp, IsNumberToken)
    IN \/ Len(numbers) = 0
       \/ TokenValue(numbers[1]) < 1
       \/ TokenValue(numbers[1]) > n

\* C5: when the answer to the insert prompt at a parent with n summary
\* children has no parseable integer or its first integer is outside 1..n,
\* the node is inserted directly under that parent (no child is descended
\* into, no error is raised before the insertion).
C5_FallbackInsertsUnderParent ==
    \A k \in 1..Len(last_insert.log) :
        LET e == last_insert.log[k]
        IN (e.kind = "select" /\ e.resp # RAISE
              /\ IsFallbackAnswer(e.resp, e.n))
           => \E j \in 1..Len(last_insert.placed) :
                 last_insert.placed[j] = [node |-> e.node,
                                          parent |-> e.parent]

\* C6: the text of a node made from source text is never rewritten, and
\* such a node never gets children.
C6_LeavesUntouched ==
    \A id \in DOMAIN leaf_text :
        /\ node_text[id] = leaf_text[id]
        /\ get_children_indices(index_graph, id) = {}

\* the texts of the children of node id, in sorted order
ChildrenText(id) ==
    get_text_from_nodes(
        [g |-> index_graph, text |-> node_text],
        get_sorted_node_list(get_children_indices(index_graph, id)))

\* C7: after insert calls that all returned normally, the text of every
\* node that has children is the summary of the texts of its children.
C7_SummariesFresh ==
    AllReturnedNormally =>
        \A id \in Range(index_graph.all_nodes) :
            get_children_indices(index_graph, id) # {}
                => node_text[id] = Summary(ChildrenText(id))

\* C7 witness: an insert returned normally after re-summarizing two nodes
\* on the path, the lower one first.
C7_Witness ==
    /\ last_insert.status = "ok"
    /\ AllReturnedNormally
    /\ \E j, k \in 1..Len(last_insert.log) :
          /\ j < k
          /\ last_insert.log[j].kind = "update"
          /\ last_insert.log[k].kind = "update"
          /\ get_index(index_graph, last_insert.log[j].parent)
                \in get_children_indices(index_graph,
                                         last_insert.log[k].parent)

\* C8: when a predictor call raises during insert, insert raises that
\* error, no predictor call follows, and the graph and the node texts are
\* as they were at the moment of the failing call.
C8_FailureLeavesGraph ==
    \A k \in 1..Len(last_insert.log) :
        last_insert.log[k].resp = RAISE =>
            /\ last_insert.status = "LLMError"
            /\ k = Len(last_insert.log)
            /\ index_graph = last_insert.pre.g
            /\ node_text = last_insert.pre.text

\* C8 witness: the predictor raised on the summary of the second half,
\* after the first summary node had been registered.
C8_Witness ==
    /\ last_insert.status = "LLMError"
    /\ last_insert.log[Len(last_insert.log)].kind = "summary2"
    /\ last_insert.log[Len(last_insert.log)].resp = RAISE

\* the set of the elements from..to of a list
Slice(list, from, to) == {list[k] : k \in from..to}

\* C19: every consolidation that ran to its end split a sorted child list
\* of n > num_children nodes, the new node among them; the children of the
\* first new summary node are the first floor(n/2) of the list, those of
\* the second the rest, and the parent's children are then exactly the two
\* summary nodes.
C19_SplitInHalves ==
    \A k \in 1..Len(last_insert.splits) :
        LET e == last_insert.splits[k]
            n == Len(e.list)
        IN /\ n > num_children
           /\ \E j \in 1..Len(last_insert.placed) :
                 /\ last_insert.placed[j].parent = e.parent
                 /\ get_index(index_graph, last_insert.placed[j].node)
                        \in Range(e.list)
           /\ e.kids1 = Slice(e.list, 1, n \div 2)
           /\ e.kids2 = Slice(e.list, (n \div 2) + 1, n)
           /\ e.children_after = {get_index(index_graph, e.node1),
                                  get_index(index_graph, e.node2)}

\* C19 witness: a child list of four nodes (fan-out 3) was split two and
\* two under a summary node.
C19_Witness ==
    /\ \E k \in 1..Len(last_insert.splits) :
          /\ Len(last_insert.splits[k].list) = 4
          /\ last_insert.splits[k].parent # NoParent
          /\ Cardinality(last_insert.splits[k].kids1) = 2

\* C20 as stated: the two summary nodes a consolidation under a parent
\* creates are inserted into the grandparent (the children of the parent's
\* parent, the root set for a parent that is a root).
C20_SummariesGoToGrandparent ==
    \A k \in 1..Len(last_insert.splits) :
        LET e == last_insert.splits[k]
        IN e.parent # NoParent =>
              {get_index(index_graph, e.node1),
               get_index(index_graph, e.node2)} \subseteq e.above_after

\* the ids the graph refers to, as a root or as a child of a node
GraphNodeIds ==
    {NodeAt(index_graph, i) :
        i \in index_graph.root_nodes
              \cup UNION {get_children_indices(index_graph, p)
                          : p \in Range(index_graph.all_nodes)}}

\* C23: after an insert call returned, every node id the graph holds as a
\* root or as a child resolves in the docstore, the inserted node and the
\* summary nodes of a consolidation included.
C23_GraphNodesInDocstore ==
    last_insert.status = "ok" => GraphNodeIds \subseteq docstore

\* the registered summary nodes that are neither a root nor anyone's child
\* although they list children
DanglingSummaries ==
    {id \in Range(index_graph.all_nodes) :
        /\ get_children_indices(index_graph, id) # {}
        /\ get_index(index_graph, id) \notin index_graph.root_nodes
        /\ ParentsOf(get_index(index_graph, id)) = {}}

\* C24: when the first insert call that raises does so because a predictor
\* call failed, the graph it leaves has no child count above num_children,
\* every node that is not a root is under exactly one parent and no summary
\* node is registered over children their old parent still lists.
C24_FailureKeepsInvariants ==
    (last_insert.status = "LLMError" /\ failed_calls = 1) =>
        /\ \A p \in Parents :
              Cardinality(get_children(index_graph, p)) <= num_children
        /\ \A i \in Indices(index_graph) :
              IF i \in index_graph.root_nodes
              THEN ParentsOf(i) = {}
              ELSE Cardinality(ParentsOf(i)) = 1
        /\ DanglingSummaries = {}

\* node id was made from source text
IsLeafNode(id) == id \in DOMAIN leaf_text

\* C25: after insert calls that all returned normally, whatever the answers
\* to the insert prompts, the children of every node and the root set are
\* all leaves or all summary nodes.
C25_LayersHomogeneous ==
    AllReturnedNormally =>
        \A p \in Parents :
            LET kids == {NodeAt(index_graph, i)
                         : i \in get_children(index_graph, p)}
            IN \/ \A c \in kids : IsLeafNode(c)
               \/ \A c \in kids : ~IsLeafNode(c)

\* the number of summary levels above the lowest leaf under node id
RECURSIVE Height(_, _)
Height(g, id) ==
    LET kids == get_children_indices(g, id)
    IN IF kids = {} THEN 0
       ELSE LET hs == {Height(g, NodeAt(g, i)) : i \in kids}
            IN 1 + CHOOSE h \in hs : \A k \in hs : k <= h

SummaryLevels(g) ==
    IF g.root_nodes = {} THEN 0
    ELSE LET hs == {Height(g, NodeAt(g, i)) : i \in g.root_nodes}
         IN CHOOSE h \in hs : \A k \in hs : k <= h

\* C12: leaves are inserted one at a time into an empty index; every insert
\* whose predictor calls all answer, whatever they answer, returns a tree,
\* and once num_children * 3 + 1 leaves are in, the tree has at least two
\* levels of summary nodes above the leaves.
C12_TwoSummaryLevels ==
    (last_insert.nodes # <<>> /\ last_insert.status # "LLMError") =>
        /\ last_insert.status = "ok"
        /\ inserted = GrowLeaves(num_children)
              => SummaryLevels(index_graph) >= 2

\* the root set holds exactly the first two leaves and nothing was split
TwoLeavesUnderRoot ==
    /\ index_graph.root_nodes = {0, 1}
    /\ index_graph.all_nodes = <<1, 2>>
    /\ last_insert.splits = <<>>

\* C13 as stated: with fan-out 2 and leaves A, B, C inserted in that order
\* into an empty index, A and B sit under the root unsplit; inserting C
\* splits [A, B] into S1 over [A] and S2 over [B], then inserts C, and the
\* root with its 3 children is consolidated a second time.
C13_SplitThenInsert ==
    (num_children = 2 /\ last_insert.status = "ok") =>
        /\ inserted = 2 => TwoLeavesUnderRoot
        /\ inserted = 3 =>
              /\ Len(last_insert.splits) = 2
              /\ last_insert.splits[1].list = <<0, 1>>
              /\ last_insert.splits[1].kids1 = {0}
              /\ last_insert.splits[1].kids2 = {1}

\* C13 amended: A and B sit under the root unsplit; inserting C first puts
\* C under the root, whose three children [A, B, C] are then split once,
\* into S1 over [A] and S2 over [B, C]; S1 and S2 are the root's only
\* children and there is no second consolidation.
C13_InsertThenSplit ==
    (num_children = 2 /\ last_insert.status = "ok") =>
        /\ inserted = 2 => TwoLeavesUnderRoot
        /\ inserted = 3 =>
              /\ Len(last_insert.splits) = 1
              /\ last_insert.placed = <<[node |-> 3, parent |-> NoParent]>>
              /\ last_insert.splits[1].list = <<0, 1, 2>>
              /\ last_insert.splits[1].kids1 = {0}
              /\ last_insert.splits[1].kids2 = {1, 2}
              /\ index_graph.all_nodes = <<1, 2, 3, 4, 5>>
              /\ index_graph.root_nodes = {3, 4}

\* C13 witness: with fan-out 2 the third leaf went into the empty-grown
\* index and the insert returned.
C13_Witness ==
    /\ num_children = 2
    /\ inserted = 3
    /\ last_insert.status = "ok"
    /\ Len(last_insert.splits) = 1

\* ============================================ response builder properties
\* the answer carried through the chunks from left to right: the first
\* chunk is answered when there is no answer yet, every other chunk refines
RECURSIVE FoldOverChunks(_, _, _)
FoldOverChunks(answer, query_str, text_chunks) ==
    IF text_chunks = <<>> THEN answer
    ELSE FoldOverChunks(
             IF answer = None
             THEN give_response_single(query_str, Head(text_chunks)).response
             ELSE refine_response_single(answer, query_str,
                                         Head(text_chunks)).response,
             query_str, Tail(text_chunks))

\* a call that runs get_response_over_chunks on last_response.chunks
RanOverChunks ==
    \/ last_response.op = "get_response_over_chunks"
    \/ last_response.op = "get_response" /\ last_response.mode = "default"

\* C3: get_response_over_chunks returns the left-to-right fold over its
\* chunks, starting from prev_response.
C3_LeftFold ==
    (RanOverChunks /\ Len(last_response.chunks) >= 1) =>
        last_response.response =
            FoldOverChunks(last_response.prev_response,
                           last_response.query_str, last_response.chunks)

\* C4: over a single chunk and with no previous response,
\* get_response_over_chunks returns what give_response_single returns for
\* that chunk, after the same predictor calls.
C4_SingleChunk ==
    (RanOverChunks /\ Len(last_response.chunks) = 1
        /\ last_response.prev_response = None) =>
        LET single == give_response_single(last_response.query_str,
                                           last_response.chunks[1])
        IN /\ last_response.status = "ok"
           /\ last_response.response = single.response
           /\ last_response.calls = single.calls

\* C4 witness: _query_node handed over a single chunk too long for one QA
\* prompt, so that the answer took an answer call and a refine call.
C4_Witness ==
    /\ last_response.op = "get_response_over_chunks"
    /\ Len(last_response.chunks) = 1
    /\ last_response.prev_response = None
    /\ Len(last_response.calls) >= 2
    /\ last_response.calls[1].template = "text_qa"
    /\ last_response.calls[2].template = "refine"

\* C10: get_response in mode TREE_SUMMARIZE raises the not-supported error
\* with no predictor call made and the accumulated chunks unchanged.
C10_TreeSummarizeRaises ==
    (last_response.op = "get_response"
        /\ last_response.mode = "tree_summarize") =>
        /\ last_response.status = "NotImplementedError"
        /\ last_response.response = None
        /\ last_response.calls = <<>>
        /\ last_response.texts_after = last_response.texts_before

\* C10 witness: TREE_SUMMARIZE was asked of a builder holding two chunks.
C10_Witness ==
    /\ last_response.op = "get_response"
    /\ last_response.mode = "tree_summarize"
    /\ last_response.status = "NotImplementedError"
    /\ Len(last_response.texts_before) = 2

\* C11: get_response_over_chunks over an empty chunk list raises and returns
\* no value, with or without a previous response; so does get_response on
\* a builder no chunk was added to, and so a vector query that retrieved no
\* node.
C11_EmptyChunksRaise ==
    ((RanOverChunks \/ last_response.op \in {"get_response",
                                             "give_response_for_nodes"})
        /\ last_response.chunks = <<>>) =>
        /\ last_response.status # "ok"
        /\ last_response.response = None

\* C11 witness: get_response was called with a previous response on a
\* builder holding no chunk, in the default mode.
C11_Witness ==
    /\ last_response.op = "get_response"
    /\ last_response.mode = "default"
    /\ last_response.chunks = <<>>
    /\ last_response.prev_response # None
    /\ last_response.status = "UnboundLocalError"

\* ======================================================= filter properties
Lower(c) == IF c = "A" THEN "a" ELSE c
LowerWord(w) == [k \in 1..Len(w) |-> Lower(w[k])]

\* keyword kw equals, ignoring letter case, some whole word of the text
MatchesWord(kw, text) ==
    \E w \in Range(FindWords(text, <<>>)) : LowerWord(w) = LowerWord(kw)

KeywordsOf(list) == IF list = NoKeywords THEN {} ELSE Range(list)

\* C9: _should_use_node is True exactly when every required keyword
\* equals, ignoring letter case, a whole word of the text and no excluded
\* keyword does.
C9_CaseInsensitiveWords ==
    last_filter.called =>
        last_filter.result =
            (/\ \A kw \in KeywordsOf(required_keywords) :
                    MatchesWord(kw, last_filter.text)
             /\ \A kw \in KeywordsOf(exclude_keywords) :
                    ~MatchesWord(kw, last_filter.text))

\* ======================================== sub-question engine properties
\* C14: the synchronous and the asynchronous path mirror each other: what
\* the synthesizer call of a query produced (the chunks handed to the
\* response builder, the response, the error) is what the other of
\* synthesize and asynthesize produces for the same query, nodes, optimizer
\* and mode.
C14_SyncAsyncMirror ==
    engine.synth.called =>
        engine.synth.outcome =
            IF engine.use_async
            THEN synthesize(QueryStr, engine.synth.nodes,
                            engine.has_optimizer, engine.response_mode)
            ELSE asynthesize(QueryStr, engine.synth.nodes,
                             engine.has_optimizer, engine.response_mode)

\* C15: the synthesizer is called only when no sub-question task is still
\* running, and it receives one entry per sub-question, in the order of the
\* sub-questions: entry i is what task i returned, the node answering
\* sub-question i (or the None of a sub-question that failed).
C15_JoinInOrder ==
    engine.synth.called =>
        /\ engine.synth.pending = {}
        /\ \A i \in Tasks : engine.task[i] = "done"
        /\ Len(engine.synth.nodes) = Len(engine.sub_questions)
        /\ \A i \in Tasks :
              /\ engine.synth.nodes[i] = engine.results[i]
              /\ \/ engine.synth.nodes[i].is_none
                 \/ engine.synth.nodes[i] =
                        SubQuestionNode(engine.sub_questions[i])

\* C15 witness: two different sub-questions were both answered, the second
\* before the first, and the synthesizer was called.
C15_Witness ==
    /\ engine.synth.called
    /\ engine.finished = <<2, 1>>
    /\ engine.sub_questions[1] # engine.sub_questions[2]
    /\ ~engine.results[1].is_none
    /\ ~engine.results[2].is_none

\* the results of the sub-questions whose query engine answered
IsAnswered(node) == ~node.is_none

\* C28: when the query engine of a sub-question raised ValueError (no
\* optimizer being set), the synthesizer receives the nodes of the
\* sub-questions that succeeded, in their order, and no None entry, and the
\* query returns a response.
C28_FailedSubQuestionSkipped ==
    (/\ engine.synth.called
     /\ ~engine.has_optimizer
     /\ \E i \in Tasks : engine.results[i].is_none) =>
        /\ \A k \in 1..Len(engine.synth.nodes) :
              ~engine.synth.nodes[k].is_none
        /\ engine.synth.nodes = SelectSeq(engine.results, IsAnswered)
        /\ engine.synth.outcome.status = "ok"

\* ================================================ construction properties
\* C16: a constructor called with invalid parameters raises and returns no
\* object, so nothing can be done with one: GPTIndexInserter for every
\* num_children < 2, Prompt whenever the replacement fields of the template
\* are not exactly the declared input_variables.
C16_InvalidConstructionRejected ==
    /\ (built.kind = "inserter" /\ built.num_children < 2) =>
           /\ built.status = "ValueError"
           /\ ~built.has_object
    /\ (built.kind = "prompt"
          /\ (\/ FormatterParse(built.template).error
              \/ FormatterParse(built.template).names
                     # Range(built.input_variables))) =>
           /\ built.status = "ValueError"
           /\ ~built.has_object
    /\ built.used =>
           /\ built.has_object
           /\ built.kind = "inserter" => built.num_children >= 2
           /\ built.kind = "prompt" =>
                  FormatterParse(built.template).names
                      = Range(built.input_variables)

\* C16 witness: a Prompt whose well-formed template names a variable that
\* is declared, with a second declared variable missing from it, was
\* rejected.
C16_Witness ==
    /\ built.kind = "prompt"
    /\ built.template = <<"{", "a", "}">>
    /\ built.input_variables = <<<<"a">>, <<"b">>>>
    /\ built.status = "ValueError"
    /\ ~built.has_object

\* ================================================ token counter properties
\* C17: when a wrapped method returns normally, last_token_usage is the
\* growth of total_tokens_used between the entry of that call and the
\* return of the method, the wrapper leaves total_tokens_used as it found
\* it (not reset, not lowered), and the wrapper returns the method's
\* return value.
C17_LastUsageIsGrowth ==
    last_call.returned =>
        /\ last_call.exit_last =
              last_call.f_return_total - last_call.entry_total
        /\ last_call.exit_total = last_call.write_total
        /\ last_call.exit_total >= last_call.f_return_total
        /\ last_call.f_return_total >= last_call.entry_total
        /\ last_call.return_val = last_call.f_return_val
        /\ predictor.total_tokens_used >= last_call.exit_total

\* C17 witness: a wrapped call that started after tokens had been counted
\* returned after two LLM calls of its own, the last one inside a nested
\* wrapped call that had already returned.
C17_Witness ==
    /\ last_call.returned
    /\ last_call.depth = 1
    /\ last_call.entry_total > 0
    /\ last_call.exit_last >= 2
    /\ last_call.exit_last < last_call.exit_total
    /\ call_stack = <<>>

\* C30: when a wrapped call that overlapped in time with a wrapped call of
\* another thread on the same predictor returns, the last_token_usage it
\* records is the number of tokens of its own LLM requests.
C30_OverlappingCallsCountOwn ==
    (last_call.returned /\ last_call.overlapped) =>
        last_call.exit_last = last_call.own

\* ================================================= batch_gather properties
\* C29: a batch_gather call over n tasks with a batch_size of at least 1
\* ends by returning (it raises no error of its own), what it returns holds
\* one result per task, the i-th being that of task i, and no chunk is
\* handed to gather while a task of an earlier chunk has not completed.
C29_BatchGatherInOrder ==
    /\ batch.pc # "TypeError"
    /\ ~batch.started_early
    /\ batch.pc = "returned" =>
          batch.output = [i \in 1..batch.n |-> ResultOf(i)]

\* ================================================= span handler properties
\* C26: as long as span_exit was only called for ids that were open (in any
\* order), current_span_id is None or the id of an open span, and the
\* parent id recorded for a span just opened is None or was an open span.
C26_CurrentSpanIsOpen ==
    ~exit_misused =>
        /\ \/ handlers[1].current_span_id = NoSpan
           \/ handlers[1].current_span_id \in OpenIds(handlers[1])
        /\ (last_span.op = "enter" /\ last_span.opened) =>
              \/ last_span.parent_id = NoSpan
              \/ last_span.parent_open

\* C27: once the outermost decorated call has ended (every decorated call
\* of the run has), the handlers were sent one span_exit per span_enter, no
\* span is open in any handler and the instrumentation raised no error,
\* whether the decorated methods returned or raised.
C27_EveryEnterHasItsExit ==
    (span_run.depth = 0 /\ span_run.ended > 0) =>
        /\ span_run.exits = span_run.enters
        /\ \A k \in 1..Len(handlers) : OpenIds(handlers[k]) = {}
        /\ span_run.error = "none"

\* ================================================== _query_node properties
\* the last _query_node call had a query runner, a ref_doc_id on the node
\* and a docstore
AllPresent ==
    /\ query_env.has_query_runner
    /\ last_query_node.ref_doc_id # NoRefDoc
    /\ query_env.has_docstore

\* the referenced document of the last _query_node call is an index
RefersToIndex ==
    AllPresent /\ query_env.docs[last_query_node.ref_doc_id] = "index"

\* the nested answer became the running answer, or was folded into it by
\* one refine_response_single call
RecursedAndFolded ==
    LET c == last_query_node
        nested == nested_query(c.query_str, c.ref_doc_id)
        folded == refine_response_single(c.prev_response, c.query_str,
                                         nested)
    IN /\ c.outcome.status = "ok"
       /\ c.outcome.branch = "nested"
       /\ c.prev_response = None =>
             c.outcome.response = nested /\ c.outcome.calls = <<>>
       /\ c.prev_response # None =>
             /\ c.outcome.response = folded.response
             /\ c.outcome.calls = folded.calls

\* the node's text went, as the only chunk, to get_response_over_chunks
\* with the running answer as previous response
FedAsSingleChunk ==
    LET c == last_query_node
        fed == get_response_over_chunks(c.query_str, <<c.text>>,
                                        c.prev_response)
    IN /\ c.outcome.branch = "text"
       /\ c.outcome.status = fed.status
       /\ c.outcome.response = fed.response
       /\ c.outcome.calls = fed.calls

\* C21 as stated: _query_node recurses into a nested index only when query
\* runner, ref_doc_id and docstore are present and the referenced document
\* is an index, and then takes over or refines in the nested answer; in
\* every other case the node's text is fed as a single chunk to
\* get_response_over_chunks with the running answer as previous response.
C21_RecursesOnlyIntoIndex ==
    last_query_node.called =>
        IF RefersToIndex THEN RecursedAndFolded ELSE FedAsSingleChunk

\* the docstore of the last _query_node call was asked for a document it
\* does not hold
RefersToNothing ==
    AllPresent /\ query_env.docs[last_query_node.ref_doc_id] = "missing"

\* C21 amended: as stated, except that when query runner, ref_doc_id and
\* docstore are present and the docstore does not hold the referenced
\* document, the lookup raises ValueError and no LLM call is made.
C21_RecursesOnlyIntoIndexOrRaises ==
    last_query_node.called =>
        IF RefersToIndex THEN RecursedAndFolded
        ELSE IF RefersToNothing
        THEN /\ last_query_node.outcome.status = "ValueError"
             /\ last_query_node.outcome.calls = <<>>
        ELSE FedAsSingleChunk

\* C21 witness: a node referring to a nested index was queried with a
\* running answer, and the nested answer was folded in by a refine call
\* that took more than one LLM request.
C21_Witness ==
    /\ last_query_node.called
    /\ RefersToIndex
    /\ last_query_node.prev_response # None
    /\ last_query_node.outcome.branch = "nested"
    /\ Len(last_query_node.outcome.calls) >= 2

\* ========================================================= prompt budget
\* the tokens of the prompt of a predictor call: the fixed text of the
\* template, the bound variables and the tokens reserved for the output
PromptTokens(call) ==
    RefineTemplateTokens + Len(call.query_str)
        + (IF call.existing_answer = None THEN 0
           ELSE Len(call.existing_answer))
        + Len(call.context) + NumOutput

\* C22: every refine prompt that the last builder call sent to the LLM
\* fits the context window: fixed template text, existing answer, query,
\* sub-chunk and reserved output tokens together.
C22_RefinePromptFits ==
    \A k \in 1..Len(last_response.calls) :
        last_response.calls[k].template = "refine" =>
            PromptTokens(last_response.calls[k]) <= ContextWindow

\* ====================================================== refresh properties
\* the hash the docstore holds for document i of the last refresh at the
\* moment that document is processed: the hash of the last earlier document
\* of the list with the same id, else the hash held before the call
StoredWhenProcessed(i) ==
    LET docs == last_refresh.documents
        earlier == {j \in 1..(i - 1) : docs[j].id = docs[i].id}
    IN IF earlier = {} THEN last_refresh.hash_before[docs[i].id]
       ELSE docs[CHOOSE j \in earlier : \A k \in earlier : k <= j].hash

\* the inserts and deletes document i of the last refresh must cause
OpsFor(i) ==
    LET d == last_refresh.documents[i]
    IN IF StoredWhenProcessed(i) = NoHash
       THEN <<[op |-> "insert", id |-> d.id]>>
       ELSE IF StoredWhenProcessed(i) # d.hash
       THEN <<[op |-> "delete", id |-> d.id], [op |-> "insert", id |-> d.id]>>
       ELSE <<>>

\* entry i of the returned list is True exactly when the docstore held no
\* hash or another hash for document i, and the call made exactly the
\* inserts and deletes this asks for, in order
EntriesTellChanges ==
    /\ Len(last_refresh.refreshed) = Len(last_refresh.documents)
    /\ \A i \in 1..Len(last_refresh.documents) :
          last_refresh.refreshed[i] =
              (\/ StoredWhenProcessed(i) = NoHash
               \/ StoredWhenProcessed(i) # last_refresh.documents[i].hash)
    /\ last_refresh.ops =
          Flatten([i \in 1..Len(last_refresh.documents) |-> OpsFor(i)])

AllFalse ==
    \A i \in 1..Len(last_refresh.refreshed) : ~last_refresh.refreshed[i]

\* C18 as stated: entry i of the list refresh_ref_docs returns is True
\* exactly when document i was unknown (then inserted) or changed (then
\* deleted and re-inserted), and a refresh that repeats the one just made
\* returns all False.
C18_RefreshTellsChanges ==
    last_refresh.called =>
        /\ EntriesTellChanges
        /\ last_refresh.repeats => AllFalse

\* the documents of the list that share an id share their hash
SameIdSameHash ==
    \A i, j \in 1..Len(last_refresh.documents) :
        last_refresh.documents[i].id = last_refresh.documents[j].id
            => last_refresh.documents[i].hash = last_refresh.documents[j].hash

\* C18 amended: as stated, the all-False repeat being claimed for lists in
\* which the documents that share an id share their hash.
C18_RefreshTellsChangesOnce ==
    last_refresh.called =>
        /\ EntriesTellChanges
        /\ (last_refresh.repeats /\ SameIdSameHash) => AllFalse

\* C18 witness: a refresh of two documents was repeated at once; the first
\* call had found one of them changed and the other one unknown.
C18_Witness ==
    /\ last_refresh.called
    /\ last_refresh.repeats
    /\ SameIdSameHash
    /\ Len(last_refresh.documents) = 2
    /\ last_refresh.documents[1].id # last_refresh.documents[2].id
    /\ AllFalse

====
